---- MODULE Spec2Model ----
(***************************************************************************)
(* NZM_CMD: the actuation layer (src/src/hardware.rs), the supervisory     *)
(* process with its heartbeat thread (src/src/main.rs), the navigation     *)
(* engine the supervisory loop drives, the daily-task module               *)
(* (src/src/daily_routine.rs) and the scene editor (src/tool/src/main.rs). *)
(*                                                                         *)
(* The module holds several specifications over one set of variables:      *)
(*   SpecMove  HardwareDriver::mouse_move on drawn (dx, dy, wheel)         *)
(*   SpecAbs   HardwareDriver::mouse_abs on drawn screen sizes and points  *)
(*   SpecNav   NavEngine::navigate on a drawn perception feed              *)
(*   Spec      the two threads of main() sharing the device                *)
(*   LiveSpec  Spec's actions without the link transcript, with fairness   *)
(*   SpecStart main() from argument parsing to the test run or the loop    *)
(*   SpecSoft  SoftwareDriver's keyboard calls on drawn call sequences     *)
(*   SpecCall  one HardwareDriver call, frame by frame, on a faulty link   *)
(*   SpecScene the scene evidence rule on drawn scenes and anchor values   *)
(*   SpecSlot  DailyRoutineApp::process_slot on a drawn slot and OCR text  *)
(*   SpecDaily DailyRoutineApp::run on drawn OCR texts, with fairness      *)
(*   SpecTool  the scene editor's build_toml and import_toml               *)
(* Each specification leaves the variables of the others untouched.        *)
(***************************************************************************)
EXTENDS Integers, Sequences, FiniteSets, TLC

VARIABLES
    mv,     \* the activation record of one HardwareDriver::mouse_move call
    ab,     \* the activation record of one HardwareDriver::mouse_abs call
    nv,     \* the activation record of one NavEngine::navigate call
    args_target, \* args.target of the supervisory process
    fg,     \* the foreground thread: main()'s supervisory loop
    hb,     \* the heartbeat thread main() spawns
    lk,     \* the owners of the HumanDriver mutex and of the device mutex
    io,     \* per thread, the driver call in progress: frames still to send
    slept,  \* per thread, the milliseconds slept since its last driver call began
    link,   \* the bytes written to the serial link, in order
    keep,   \* whether the link's transcript is kept (Spec) or not (LiveSpec)
    st,     \* main() from its entry to the test run or the supervisory loop
    sd,     \* a SoftwareDriver and the input events it has injected
    dc,     \* one call on a HardwareDriver whose port may fail
    sc,     \* one scene, the anchors that hold in a frame, and its activation
    ps,     \* the activation record of one DailyRoutineApp::process_slot call
    dr,     \* the activation record of one DailyRoutineApp::run call
    tl      \* the scene editor: MapBuilderTool's scene, drafts and TOML text

mainVars == <<args_target, fg, hb, lk, io, slept, link, keep>>
dailyVars == <<sc, ps, dr>>
vars == <<mv, ab, nv, args_target, fg, hb, lk, io, slept, link, keep, st, sd, dc,
          sc, ps, dr, tl>>

\* What each specification leaves untouched.
notMove == <<ab, nv, mainVars, st, sd, dc, dailyVars, tl>>
notAbs == <<mv, nv, mainVars, st, sd, dc, dailyVars, tl>>
notNav == <<mv, ab, mainVars, st, sd, dc, dailyVars, tl>>
notMain == <<mv, ab, nv, st, sd, dc, dailyVars, tl>>
notStart == <<mv, ab, nv, mainVars, sd, dc, dailyVars, tl>>
notSoft == <<mv, ab, nv, mainVars, st, dc, dailyVars, tl>>
notCall == <<mv, ab, nv, mainVars, st, sd, dailyVars, tl>>
notScene == <<mv, ab, nv, mainVars, st, sd, dc, ps, dr, tl>>
notSlot == <<mv, ab, nv, mainVars, st, sd, dc, sc, dr, tl>>
notDaily == <<mv, ab, nv, mainVars, st, sd, dc, sc, ps, tl>>
notTool == <<mv, ab, nv, mainVars, st, sd, dc, dailyVars>>

(***************************************************************************)
(* Bounds of the model.                                                    *)
(***************************************************************************)
MaxDx == 260          \* |dx| drawn for mouse_move
MaxDy == 130          \* |dy| drawn for mouse_move
MaxScreen == 40       \* every screen size 0..MaxScreen is drawn for mouse_abs
MaxNavRounds == 4     \* the round cap of navigate (a policy value of the engine)
SleptCap == 5000      \* slept milliseconds are counted up to this many
MaxFrames == 6        \* frames on the link while its transcript is kept
MaxModuleOps == 1     \* HumanDriver operations of one task module run
MaxAnchors == 4       \* anchors of a drawn scene
MaxTextLen == 4       \* characters of a drawn OCR text
MaxDrafts == 2        \* drafts of the drawn editor state
MaxToolOps == 3       \* presses of the editor's two buttons
MaxSoftCalls == 3     \* keyboard calls made on one SoftwareDriver

None == "none"

Min(a, b) == IF a < b THEN a ELSE b
Max(a, b) == IF a > b THEN a ELSE b
Abs(a) == IF a < 0 THEN -a ELSE a
Last(sq) == sq[Len(sq)]

(***************************************************************************)
(* The wire protocol: hardware.rs, lines 30-75.                            *)
(***************************************************************************)
FRAME_HEAD == 170     \* 0xAA
FRAME_TAIL == 85      \* 0x55

Keyboard == 1         \* EventType::Keyboard = 0x01
MouseRel == 2         \* EventType::MouseRel = 0x02
MouseAbs == 3         \* EventType::MouseAbs = 0x03
System == 4           \* EventType::System   = 0x04

SetId == 16           \* SystemCmd::SetId     = 0x10
Heartbeat == 255      \* SystemCmd::Heartbeat = 0xFF

\* write_u16::<LittleEndian>(v): low byte, then high byte.
U16LE(v) == <<v % 256, (v \div 256) % 256>>

\* `v as i16`: the low 16 bits of v, read as two's complement.
AsI16(v) == ((v + 32768) % 65536) - 32768

\* i16::to_le_bytes: the two's-complement bit pattern, low byte first.
I16LEMut(v) == U16LE(Abs(v))
I16LE(v) == U16LE(v % 65536)

\* i16::from_le_bytes, what the device does with bytes 4-5 and 6-7.
I16Decode(lo, hi) == AsI16(lo + 256 * hi)

\* `wheel as u8`: the two's-complement bit pattern of an i8.
I8AsU8(w) == w % 256

\* The frame send_raw builds (lines 64-69): head, type, payload, delay, tail.
FrameMut(event_type, b, delay_ms) ==
    <<FRAME_HEAD, event_type>> \o b \o <<delay_ms % 256>> \o <<FRAME_TAIL>>
Frame(event_type, b, delay_ms) ==
    <<FRAME_HEAD, event_type>> \o b \o U16LE(delay_ms) \o <<FRAME_TAIL>>

(***************************************************************************)
(* HardwareDriver::mouse_move, lines 108-128.                              *)
(***************************************************************************)
max_step == 127

\* Lines 117-118: the step of one axis.
StepOfMut(cur) == IF cur > 0 THEN Min(cur, max_step + 1) ELSE Max(cur, -max_step)
StepOf(cur) == IF cur > 0 THEN Min(cur, max_step) ELSE Max(cur, -max_step)

\* Line 110: the wheel frame.
WheelFrame(wheel) == Frame(MouseRel, <<0, I8AsU8(wheel), 0, 0, 0, 0>>, 0)

\* Lines 120-123: the motion frame of one loop iteration.
MotionFrame(step_x, step_y) ==
    LET bx == I16LE(AsI16(step_x))
        by == I16LE(AsI16(step_y))
    IN  Frame(MouseRel, <<0, 0, bx[1], bx[2], by[1], by[2]>>, 0)

\* Lines 109-114: the wheel frame when wheel # 0, then the loop's variables.
MoveEntry(dx, dy, wheel) ==
    [pc |-> "loop", dx |-> dx, dy |-> dy, wheel |-> wheel,
     cur_dx |-> dx, cur_dy |-> dy,
     out |-> IF wheel # 0 THEN <<WheelFrame(wheel)>> ELSE <<>>]

\* Line 116: the loop's condition.
MoveCondMut(m) == m.cur_dx # 0 /\ m.cur_dy # 0
MoveCond(m) == m.cur_dx # 0 \/ m.cur_dy # 0

\* Lines 117-126: one iteration of the loop.
MoveIterateMut(m) ==
    LET step_x == StepOf(m.cur_dx)
        step_y == IF m.cur_dx # 0 THEN 0 ELSE StepOf(m.cur_dy)
    IN  [m EXCEPT !.out = Append(@, MotionFrame(step_x, step_y)),
                  !.cur_dx = @ - step_x,
                  !.cur_dy = @ - step_y]
MoveIterate(m) ==
    LET step_x == StepOf(m.cur_dx)
        step_y == StepOf(m.cur_dy)
    IN  [m EXCEPT !.out = Append(@, MotionFrame(step_x, step_y)),
                  !.cur_dx = @ - step_x,
                  !.cur_dy = @ - step_y]

RECURSIVE MoveRun(_)
MoveRun(m) == IF MoveCond(m) THEN MoveRun(MoveIterate(m)) ELSE m.out

\* The frames one mouse_move(dx, dy, wheel) call sends, in order.
MoveFrames(dx, dy, wheel) == MoveRun(MoveEntry(dx, dy, wheel))

\* No mouse_move call in progress.
MoveIdle == [pc |-> "idle", dx |-> 0, dy |-> 0, wheel |-> 0,
             cur_dx |-> 0, cur_dy |-> 0, out |-> <<>>]

(***************************************************************************)
(* f32 arithmetic of mouse_abs (lines 95-96), on integers.  A finite f32   *)
(* is [k |-> "fin", m |-> m, s |-> s], the value m / 2^s with m = 0 or     *)
(* 2^23 <= m <= 2^24: a 24-bit significand, rounded to nearest, ties to    *)
(* even, after every operation, as IEEE 754 binary32 does.                 *)
(***************************************************************************)
F32NaN == [k |-> "nan", m |-> 0, s |-> 0]
F32Inf == [k |-> "inf", m |-> 0, s |-> 0]
F32Zero == [k |-> "fin", m |-> 0, s |-> 0]

\* Round to nearest, ties to even: m with the dropped part rem against half.
RoundEven(m, rem, half) ==
    IF rem > half \/ (rem = half /\ m % 2 = 1) THEN m + 1 ELSE m

\* Binary long division: quotient bits until the significand has 24 bits.
RECURSIVE DivBits(_, _, _, _)
DivBits(q, r, w, s) ==
    IF q >= 2^23 THEN [q |-> q, r |-> r, s |-> s]
    ELSE LET bit == IF 2 * r >= w THEN 1 ELSE 0
         IN  DivBits(2 * q + bit, 2 * r - bit * w, w, s + 1)

\* `x as f32 / w as f32` for u16 x, w (every u16 is exact in f32).
F32DivU16(x, w) ==
    IF w = 0 THEN (IF x = 0 THEN F32NaN ELSE F32Inf)
    ELSE IF x = 0 THEN F32Zero
    ELSE LET d == DivBits(x \div w, x % w, w, 0)
         IN  [k |-> "fin", m |-> RoundEven(d.q, 2 * d.r, w), s |-> d.s]

\* `v * 32767.0`: the 39-bit product in two limbs, rounded back to 24 bits.
F32Mul32767(v) ==
    IF v.k # "fin" \/ v.m = 0 THEN v
    ELSE LET a == (v.m \div 4096) * 32767
             b == (v.m % 4096) * 32767
             h == a + (b \div 4096)
             l == b % 4096
             k == IF h >= 2^26 THEN 3 ELSE 2
         IN  [k |-> "fin",
              m |-> RoundEven(h \div 2^k, (h % 2^k) * 4096 + l, 2^(k + 11)),
              s |-> v.s - (k + 12)]

\* `v as u16`: truncation toward zero, saturating; NaN gives 0.
F32AsU16Mut(v) ==
    IF v.k = "nan" THEN 0
    ELSE IF v.k = "inf" THEN 65535
    ELSE IF v.m = 0 THEN 0
    ELSE IF v.s <= 0 THEN 65535
    ELSE IF v.s > 30 THEN 0
    ELSE Min((v.m + 2^(v.s - 1)) \div 2^(v.s), 65535)
F32AsU16(v) ==
    IF v.k = "nan" THEN 0
    ELSE IF v.k = "inf" THEN 65535
    ELSE IF v.m = 0 THEN 0
    ELSE IF v.s <= 0 THEN 65535
    ELSE IF v.s > 30 THEN 0
    ELSE Min(v.m \div 2^(v.s), 65535)

(***************************************************************************)
(* HardwareDriver::mouse_abs, lines 94-106.                                *)
(***************************************************************************)
\* Lines 95-96: ((v as f32 / dim as f32) * 32767.0) as u16.
Scale(v, dim) == F32AsU16(F32Mul32767(F32DivU16(v, dim)))

\* Lines 97-98: u16::clamp.
ClampMut(v, lo, hi) == IF v > hi THEN hi ELSE v
Clamp(v, lo, hi) == IF v < lo THEN lo ELSE IF v > hi THEN hi ELSE v

\* Lines 100-105: the frame, tx in payload bytes 2-3 and ty in 4-5.
AbsFrame(x, y, screen_w, screen_h) ==
    LET tx == Clamp(Scale(x, screen_w), 10, 32757)
        ty == Clamp(Scale(y, screen_h), 10, 32757)
    IN  Frame(MouseAbs,
              <<0, 0, tx % 256, (tx \div 256) % 256,
                      ty % 256, (ty \div 256) % 256>>, 0)

\* No mouse_abs call in progress.
AbsIdle == [pc |-> "idle", screen_w |-> 0, screen_h |-> 0, x |-> 0, y |-> 0,
            out |-> <<>>]

(***************************************************************************)
(* The scene catalog (spec, sections 3 and 6).  ui_map.toml is not part of *)
(* the sources; this catalog holds the scenes A and B of the spec's        *)
(* end-to-end scenario, a two-anchor AND scene, a two-anchor OR scene, a   *)
(* scene with no anchor, and handover tags.  An anchor is named; a frame   *)
(* of the perception feed is the set of anchors that evaluate true on it.  *)
(***************************************************************************)
Catalog == <<
    [id |-> "L", logic |-> "or", anchors |-> <<"l1", "l2">>, handover |-> None,
     transitions |-> <<[target |-> "A", coords |-> <<10, 10>>, post_delay |-> 200]>>],
    [id |-> "A", logic |-> "and", anchors |-> <<"a1">>, handover |-> None,
     transitions |-> <<[target |-> "B", coords |-> <<20, 20>>, post_delay |-> 500],
                       [target |-> "C", coords |-> <<30, 40>>, post_delay |-> 300]>>],
    [id |-> "B", logic |-> "and", anchors |-> <<"b1">>, handover |-> None,
     transitions |-> <<>>],
    [id |-> "C", logic |-> "and", anchors |-> <<"c1", "c2">>, handover |-> "daily",
     transitions |-> <<[target |-> "T", coords |-> <<50, 60>>, post_delay |-> 100]>>],
    [id |-> "T", logic |-> "or", anchors |-> <<"t1">>, handover |-> "td",
     transitions |-> <<>>],
    [id |-> "E", logic |-> "or", anchors |-> <<>>, handover |-> "boss",
     transitions |-> <<>>] >>

Anchors == {"l1", "l2", "a1", "b1", "c1", "c2", "t1"}
SceneIds == {Catalog[i].id : i \in 1..Len(Catalog)}

\* Section 3: all anchors true (AND), at least one true (OR); never when empty.
SceneActiveMut(scene, frame) ==
    IF scene.logic = "and"
    THEN \A i \in 1..Len(scene.anchors) : scene.anchors[i] \in frame
    ELSE \E i \in 1..Len(scene.anchors) : scene.anchors[i] \in frame
SceneActive(scene, frame) ==
    /\ Len(scene.anchors) > 0
    /\ IF scene.logic = "and"
       THEN \A i \in 1..Len(scene.anchors) : scene.anchors[i] \in frame
       ELSE \E i \in 1..Len(scene.anchors) : scene.anchors[i] \in frame

\* Section 4.1, step 2: the first active scene in catalog order; 0 when none.
CurrentScene(frame) ==
    LET active == {i \in 1..Len(Catalog) : SceneActive(Catalog[i], frame)}
    IN  IF active = {} THEN 0 ELSE CHOOSE i \in active : \A j \in active : i <= j

SceneIndex(id) ==
    IF id \in SceneIds THEN CHOOSE i \in 1..Len(Catalog) : Catalog[i].id = id ELSE 0

\* Whether scene id s reaches target t over at most n transitions.
RECURSIVE Reaches(_, _, _)
Reaches(s, t, n) ==
    \/ s = t
    \/ /\ n > 0
       /\ SceneIndex(s) # 0
       /\ \E k \in 1..Len(Catalog[SceneIndex(s)].transitions) :
             Reaches(Catalog[SceneIndex(s)].transitions[k].target, t, n - 1)

\* The number of transitions of a shortest path from s to t; Len(Catalog) when none.
Hops(s, t) ==
    IF Reaches(s, t, Len(Catalog) - 1)
    THEN CHOOSE n \in 0..(Len(Catalog) - 1) :
            /\ Reaches(s, t, n)
            /\ \A m \in 0..(n - 1) : ~Reaches(s, t, m)
    ELSE Len(Catalog)

\* Section 4.1, step 4: the transition of scene i to take toward target; the
\* direct one first, else the first on a shortest path; 0 when none leads there.
Route(i, target) ==
    LET trs == Catalog[i].transitions
        direct == {k \in 1..Len(trs) : trs[k].target = target}
        onward == {k \in 1..Len(trs) : Hops(trs[k].target, target) < Len(Catalog)}
        best == {k \in onward : \A j \in onward :
                    Hops(trs[k].target, target) <= Hops(trs[j].target, target)}
        first(S) == CHOOSE k \in S : \A j \in S : k <= j
    IN  IF direct # {} THEN first(direct)
        ELSE IF best # {} THEN first(best)
        ELSE 0

\* thread::sleep(ms) on a count of slept milliseconds.
Slept(t, ms) == Min(t + ms, SleptCap)

(***************************************************************************)
(* NavEngine::navigate (spec, section 4.1).  src/nav.rs is not part of the *)
(* sources: the engine is modelled from the spec, a round per action.      *)
(***************************************************************************)
NavRetryWait == 1     \* "wait briefly": some positive number of milliseconds

Success == [kind |-> "Success", scene |-> None, handler |-> None]
Failed == [kind |-> "Failed", scene |-> None, handler |-> None]
Handover(scene_id, handler) ==
    [kind |-> "Handover", scene |-> scene_id, handler |-> handler]
NoResult == [kind |-> None, scene |-> None, handler |-> None]

NavIdle == [pc |-> "idle", target |-> None, round |-> 0, seen |-> <<>>,
            clicks |-> <<>>, since |-> 0, result |-> NoResult]

\* Step 3: the outcome on reaching the target, by its catalog entry's tag.
ReachedMut(i) == Handover(Catalog[i].id, Catalog[i].handover)
Reached(i) ==
    IF Catalog[i].handover = None THEN Success
    ELSE Handover(Catalog[i].id, Catalog[i].handover)

\* Step 3: the current scene is the target; the call returns.
NavArrive(n, cur) ==
    [n EXCEPT !.pc = "done", !.round = @ + 1,
              !.seen = Append(@, Catalog[cur].id), !.result = Reached(cur)]

\* Step 4: click the transition's point, then block for its settle delay.
NavClickMut(n, cur, tr) ==
    [n EXCEPT !.round = @ + 1, !.seen = Append(@, Catalog[cur].id),
              !.clicks = Append(@, tr.coords), !.since = 0]
NavClick(n, cur, tr) ==
    [n EXCEPT !.round = @ + 1, !.seen = Append(@, Catalog[cur].id),
              !.clicks = Append(@, tr.coords),
              !.since = Slept(0, tr.post_delay)]

\* Step 5: no scene matched, or no transition leads on; wait briefly, resample.
NavWaitMut(n, cur) ==
    [n EXCEPT !.seen = Append(@, IF cur = 0 THEN None ELSE Catalog[cur].id),
              !.since = Slept(@, NavRetryWait)]
NavWait(n, cur) ==
    [n EXCEPT !.round = @ + 1,
              !.seen = Append(@, IF cur = 0 THEN None ELSE Catalog[cur].id),
              !.since = Slept(@, NavRetryWait)]

\* One round on a sampled frame: steps 1-5.
NavStep(n, frame) ==
    LET cur == CurrentScene(frame)
    IN  IF cur # 0 /\ Catalog[cur].id = n.target THEN NavArrive(n, cur)
        ELSE IF cur # 0 /\ Route(cur, n.target) # 0
        THEN NavClick(n, cur, Catalog[cur].transitions[Route(cur, n.target)])
        ELSE NavWait(n, cur)

(***************************************************************************)
(* The other InputDriver calls of HardwareDriver: hardware.rs, 80-148.     *)
(***************************************************************************)
\* heartbeat, lines 81-85.
HeartbeatFrame == Frame(System, <<Heartbeat, 0, 0, 0, 0, 0>>, 0)

\* switch_identity, lines 87-92.
SetIdFrameMut(index) == Frame(System, <<SetId, 0, index, 0, 0, 0>>, 0)
SetIdFrame(index) == Frame(System, <<SetId, index, 0, 0, 0, 0>>, 0)

\* mouse_down, lines 130-135.
ButtonDownFrameMut(left, right) ==
    LET mask == (IF left THEN 1 ELSE 0) + (IF right THEN 4 ELSE 0)
    IN  Frame(MouseRel, <<mask, 0, 0, 0, 0, 0>>, 0)
ButtonDownFrame(left, right) ==
    LET mask == (IF left THEN 1 ELSE 0) + (IF right THEN 2 ELSE 0)
    IN  Frame(MouseRel, <<mask, 0, 0, 0, 0, 0>>, 0)

\* mouse_up, lines 137-139.
ButtonUpFrame == Frame(MouseRel, <<0, 0, 0, 0, 0, 0>>, 0)

\* key_down, lines 141-143.
KeyDownFrameMut(keycode, modifier) ==
    Frame(Keyboard, <<keycode, modifier, 0, 0, 0, 0>>, 0)
KeyDownFrame(keycode, modifier) ==
    Frame(Keyboard, <<keycode, 0, modifier, 0, 0, 0>>, 0)

\* key_up, lines 145-147.
KeyUpFrame == Frame(Keyboard, <<0, 128, 0, 0, 0, 0>>, 0)

\* main.rs, line 39: the screen size every driver is built with.
sw == 1920
sh == 1080

\* The frames one call f(a) on the HardwareDriver sends, in order.
DriverFrames(f, a) ==
    CASE f = "heartbeat" -> <<HeartbeatFrame>>
      [] f = "switch_identity" -> <<SetIdFrame(a[1])>>
      [] f = "mouse_abs" -> <<AbsFrame(a[1], a[2], sw, sh)>>
      [] f = "mouse_move" -> MoveFrames(a[1], a[2], a[3])
      [] f = "mouse_down" -> <<ButtonDownFrame(a[1], a[2])>>
      [] f = "mouse_up" -> <<ButtonUpFrame>>
      [] f = "key_down" -> <<KeyDownFrame(a[1], a[2])>>
      [] f = "key_up" -> <<KeyUpFrame>>

\* send_raw, line 73: the settle sleep after every frame.
SettleMs == 4

(***************************************************************************)
(* main(): the foreground thread's code as instructions.  A thread works   *)
(* through its instruction list one instruction per step.                  *)
(***************************************************************************)
Threads == {"fg", "hb"}

Ins(op) == [op |-> op, f |-> None, a |-> <<>>, ms |-> 0]
Sleep(ms) == [op |-> "sleep", f |-> None, a |-> <<>>, ms |-> ms]
Call(f, a) == [op |-> "call", f |-> f, a |-> a, ms |-> 0]

\* `if let Ok(mut dev) = human.device.lock() { dev.f(a); }` (main.rs, 137-139):
\* the guard lives for the one call.  No driver method panics, so no thread
\* ever finds the mutex poisoned.
DevCallMut(f, a) == <<Ins("lock_dev"), Call(f, a)>>
DevCall(f, a) == <<Ins("lock_dev"), Call(f, a), Ins("unlock_dev")>>

(***************************************************************************)
(* HumanDriver (spec, section 4.2).  src/human.rs is not part of the       *)
(* sources: its operations are modelled from the spec, each ActuationPort  *)
(* call under its own acquisition of the device mutex.                     *)
(***************************************************************************)
ESC == 27             \* '\u{1B}'

\* The keycode and modifier a character resolves to.
KeyOf(char) == IF char = ESC THEN <<41, 0>> ELSE <<44, 0>>

\* key_hold(char, duration): key-down, hold, key-up.
HumanKeyHold(char, duration) ==
    DevCall("key_down", KeyOf(char)) \o <<Sleep(duration)>> \o DevCall("key_up", <<>>)

\* move_to then click(left): a relative move, button-down, button-up.
ClickGap == 50        \* the short delay between button-down and button-up
HumanClickAt(delta) ==
    DevCall("mouse_move", <<delta[1], delta[2], 0>>)
        \o DevCall("mouse_down", <<TRUE, FALSE>>)
        \o <<Sleep(ClickGap)>>
        \o DevCall("mouse_up", <<>>)

\* The relative moves drawn for a click: one needs two frames.
MoveDeltas == {<<130, -5>>, <<20, 20>>}

\* key_click(char): key-down, then key-up.
SPACE == 32           \* ' '
HumanKeyClick(char) == DevCall("key_down", KeyOf(char)) \o DevCall("key_up", <<>>)

(***************************************************************************)
(* DailyRoutineApp::process_slot, daily_routine.rs, lines 90-151: what the *)
(* foreground does under the HumanDriver mutex.                            *)
(***************************************************************************)
\* Lines 112-125: the claim click, then Space twice.
ClaimFlow(delta) ==
    <<Ins("lock_human")>>
        \o HumanClickAt(delta)
        \o <<Sleep(1000)>>
        \o HumanKeyClick(SPACE)
        \o <<Sleep(1000)>>
        \o HumanKeyClick(SPACE)
        \o <<Ins("unlock_human")>>

\* Lines 132-139: the refresh click and its cool-down.
RefreshFlowMut(delta) ==
    <<Ins("lock_dev"), Ins("lock_human")>>
        \o HumanClickAt(delta)
        \o <<Sleep(500), Ins("unlock_human"), Ins("unlock_dev")>>
RefreshFlow(delta) ==
    <<Ins("lock_human")>>
        \o HumanClickAt(delta)
        \o <<Sleep(500), Ins("unlock_human")>>

\* The operations a running module may do next: the daily module one of its
\* two flows, the tower-defense module (not in the sources) a click.
ModuleOps(app, delta) ==
    IF app = "daily"
    THEN {ClaimFlow(delta), RefreshFlow(delta)}
    ELSE {<<Ins("lock_human")>> \o HumanClickAt(delta) \o <<Ins("unlock_human")>>}

(***************************************************************************)
(* main.rs, lines 90-155: the branches of `match nav_result`.              *)
(***************************************************************************)
\* Lines 133-147, NavResult::Failed.
FailedBranchMut ==
    <<Ins("lock_human")>>
        \o HumanKeyHold(ESC, 100)
        \o DevCall("key_down", <<41, 0>>)
        \o <<Sleep(100)>>
        \o <<Ins("unlock_human"), Sleep(3000)>>
FailedBranch ==
    <<Ins("lock_human")>>
        \o HumanKeyHold(ESC, 100)
        \o DevCall("key_down", <<41, 0>>)
        \o <<Sleep(100)>>
        \o DevCall("key_up", <<>>)
        \o <<Ins("unlock_human"), Sleep(3000)>>

\* Lines 150-153, NavResult::Success.
SuccessBranch == <<Sleep(5000)>>

\* Lines 126-127, the end of NavResult::Handover.
HandoverTail == <<Sleep(5000)>>

\* Lines 117-119: the files of the tower-defense module.  The suffixes stand
\* for the source's "<U+5730><U+56FE>.json" and "<U+7B56><U+7565>.json".
MapFile(scene_id) == scene_id \o "<ditu>.json"
StrategyFile(scene_id) == scene_id \o "<celue>.json"

\* Lines 102-124: the module a Handover dispatches to, with its arguments.
ModuleForMut(scene_id, handler_opt) ==
    IF handler_opt \in {"daily", None}
    THEN [app |-> "daily", map_file |-> None, strategy_file |-> None,
          traps_file |-> None]
    ELSE [app |-> "td", map_file |-> MapFile(scene_id),
          strategy_file |-> StrategyFile(scene_id),
          traps_file |-> "traps_config.json"]
ModuleFor(scene_id, handler_opt) ==
    LET handler_key == IF handler_opt = None THEN "td" ELSE handler_opt
    IN  IF handler_key = "daily"
        THEN [app |-> "daily", map_file |-> None, strategy_file |-> None,
              traps_file |-> None]
        ELSE [app |-> "td", map_file |-> MapFile(scene_id),
              strategy_file |-> StrategyFile(scene_id),
              traps_file |-> "traps_config.json"]

\* What navigate may return to main(): every value of NavResult.
Handlers == {None, "daily", "td", "boss"}
NavResults ==
    {Success, Failed} \cup {Handover(s, h) : s \in {"C", "T"}, h \in Handlers}

FgIdle == [pc |-> "idle", q |-> <<>>, result |-> NoResult, arg |-> None,
           ops |-> 0, ran |-> <<>>, calls |-> <<>>]
HbIdle == [pc |-> "idle", started |-> FALSE]
IoIdle == [t \in Threads |-> [pend |-> <<>>, wr |-> 0, sent |-> 0, n |-> 0]]

\* The supervisory process not started: the state of the other specifications.
MainIdle ==
    /\ args_target = None
    /\ fg = FgIdle
    /\ hb = HbIdle
    /\ lk = [human |-> "free", dev |-> "free"]
    /\ io = IoIdle
    /\ slept = [t \in Threads |-> 0]
    /\ link = <<>>
    /\ keep = FALSE

\* The other processes not started.
StartIdle == [pc |-> "idle", port |-> <<>>, target |-> None, test |-> None,
              opens |-> FALSE, driver_type |-> None, created |-> None,
              driver_box |-> None, warned |-> FALSE, hb |-> None,
              human |-> None, engine |-> None, slept |-> 0, ran |-> <<>>,
              navigated |-> FALSE, arg |-> None, result |-> NoResult,
              module |-> <<>>, cool |-> 0]
NoKey == [k |-> "None", c |-> 0]      \* Option::<Key>::None
SoftIdle == [pc |-> "idle", screen_w |-> 0, screen_h |-> 0, last_key |-> NoKey,
             log |-> <<>>, calls |-> <<>>]
CallIdle == [pc |-> "idle", f |-> None, a |-> <<>>, pend |-> <<>>, wrote |-> None,
             flushed |-> None, tried |-> <<>>, ret |-> None]
SceneIdle == [pc |-> "idle", scene |-> [logic |-> None, anchors |-> <<>>],
              frame |-> {}, active |-> FALSE, was |-> FALSE, flipped |-> 0]
SlotIdle == [pc |-> "idle", slot |-> 0, text |-> <<>>, clean_text |-> <<>>,
             inputs |-> <<>>, ret |-> FALSE]
DailyIdle == [pc |-> "idle", round |-> 0, i |-> 0, need_retry |-> FALSE,
              clicks |-> <<>>, order |-> <<>>, acted |-> <<>>]
ToolIdle == [pc |-> "idle", scene_id |-> <<>>, scene_name |-> <<>>, logic |-> None,
             drafts |-> <<>>, toml_content |-> <<>>, status_msg |-> None,
             ops |-> <<>>]
LaterIdle == sc = SceneIdle /\ ps = SlotIdle /\ dr = DailyIdle /\ tl = ToolIdle
OthersIdle == st = StartIdle /\ sd = SoftIdle /\ dc = CallIdle /\ LaterIdle

(***************************************************************************)
(* SpecNav: one navigate(target) call against a drawn perception feed.     *)
(***************************************************************************)
Targets == SceneIds \cup {"Z"}

InitNav ==
    /\ MainIdle
    /\ OthersIdle
    /\ mv = MoveIdle
    /\ ab = AbsIdle
    /\ \E target \in Targets : nv = [NavIdle EXCEPT !.pc = "run", !.target = target]

NavRound ==
    /\ nv.pc = "run"
    /\ nv.round < MaxNavRounds
    /\ \E frame \in SUBSET Anchors : nv' = NavStep(nv, frame)
    /\ UNCHANGED notNav

NavGiveUp ==
    /\ nv.pc = "run"
    /\ nv.round >= MaxNavRounds
    /\ nv' = [nv EXCEPT !.pc = "done", !.result = Failed]
    /\ UNCHANGED notNav

NextNav == NavRound \/ NavGiveUp

SpecNav == InitNav /\ [][NextNav]_vars

(***************************************************************************)
(* SpecMove: one mouse_move call, an action per step of its code.          *)
(***************************************************************************)
Wheels == {-128, 0, 5}

InitMove ==
    /\ MainIdle
    /\ OthersIdle
    /\ ab = AbsIdle
    /\ nv = NavIdle
    /\ \E dx \in -MaxDx..MaxDx, dy \in -MaxDy..MaxDy, wheel \in Wheels :
          mv = [MoveIdle EXCEPT !.pc = "call", !.dx = dx, !.dy = dy, !.wheel = wheel]

MoveEnter ==
    /\ mv.pc = "call"
    /\ mv' = MoveEntry(mv.dx, mv.dy, mv.wheel)
    /\ UNCHANGED notMove

MoveLoop ==
    /\ mv.pc = "loop"
    /\ MoveCond(mv)
    /\ mv' = MoveIterate(mv)
    /\ UNCHANGED notMove

MoveReturn ==
    /\ mv.pc = "loop"
    /\ ~MoveCond(mv)
    /\ mv' = [mv EXCEPT !.pc = "done"]
    /\ UNCHANGED notMove

NextMove == MoveEnter \/ MoveLoop \/ MoveReturn

SpecMove == InitMove /\ [][NextMove]_vars

(***************************************************************************)
(* SpecAbs: one mouse_abs call on a driver built with a drawn screen size. *)
(***************************************************************************)
ScreenSizes == (0..MaxScreen) \cup {1080, 1920}

InitAbs ==
    /\ MainIdle
    /\ OthersIdle
    /\ mv = MoveIdle
    /\ nv = NavIdle
    /\ \E screen_w \in ScreenSizes, screen_h \in {0, 1, 1080, 65535} :
       \E x \in (0..screen_w) \cup {65535},
          y \in {0, 1, screen_h \div 2, screen_h, 65535} :
          ab = [pc |-> "call", screen_w |-> screen_w, screen_h |-> screen_h,
                x |-> x, y |-> y, out |-> <<>>]

AbsCall ==
    /\ ab.pc = "call"
    /\ ab' = [ab EXCEPT !.pc = "done",
                        !.out = <<AbsFrame(ab.x, ab.y, ab.screen_w, ab.screen_h)>>]
    /\ UNCHANGED notAbs

NextAbs == AbsCall

SpecAbs == InitAbs /\ [][NextAbs]_vars

(***************************************************************************)
(* Spec: main()'s supervisory loop (main.rs, 90-155) and the heartbeat     *)
(* thread (main.rs, 58-64) on the shared HardwareDriver.                   *)
(***************************************************************************)
MainTargets == {"B", "C"}

InitMain(k) ==
    /\ OthersIdle
    /\ mv = MoveIdle
    /\ ab = AbsIdle
    /\ nv = NavIdle
    /\ args_target \in MainTargets
    /\ fg = [FgIdle EXCEPT !.pc = "navigate"]
    /\ hb = [HbIdle EXCEPT !.pc = "lock"]
    /\ lk = [human |-> "free", dev |-> "free"]
    /\ io = IoIdle
    /\ slept = [t \in Threads |-> 0]
    /\ link = <<>>
    /\ keep = k

Init == InitMain(TRUE)

\* While the transcript is kept, a call starts only if its frames fit on it.
Room(frames) == keep => io["fg"].n + io["hb"].n + Len(frames) <= MaxFrames

\* A driver call begins on thread t: the frames it will send, one at a time.
BeginCall(t, frames) ==
    [io EXCEPT ![t] = [pend |-> frames, wr |-> 0, sent |-> 0,
                       n |-> IF keep THEN @.n + Len(frames) ELSE @.n]]

\* send_raw, line 71: write_all puts the frame's bytes on the link in order.
WriteByte(t) ==
    /\ io[t].pend # <<>>
    /\ io[t].wr < 11
    /\ link' = IF keep
               THEN Append(link, [by |-> t, n |-> io[t].n - Len(io[t].pend) + 1,
                                  k |-> io[t].wr + 1,
                                  v |-> Head(io[t].pend)[io[t].wr + 1]])
               ELSE link
    /\ io' = [io EXCEPT ![t].wr = @ + 1]
    /\ UNCHANGED <<args_target, fg, hb, lk, slept, keep, notMain>>

\* send_raw, lines 72-73: flush, the settle sleep, and the return.
SettleMut(t) ==
    /\ io[t].pend # <<>>
    /\ io[t].wr = 11
    /\ io' = [io EXCEPT ![t].pend = Tail(@), ![t].wr = 0, ![t].sent = @ + 1]
    /\ UNCHANGED <<args_target, fg, hb, lk, slept, link, keep, notMain>>
Settle(t) ==
    /\ io[t].pend # <<>>
    /\ io[t].wr = 11
    /\ io' = [io EXCEPT ![t].pend = Tail(@), ![t].wr = 0, ![t].sent = @ + 1]
    /\ slept' = [slept EXCEPT ![t] = Slept(@, SettleMs)]
    /\ UNCHANGED <<args_target, fg, hb, lk, link, keep, notMain>>

\* main.rs, line 60: hb.lock(), and line 61: d.heartbeat() begins.
HbLockMut ==
    /\ hb.pc = "lock"
    /\ Room(DriverFrames("heartbeat", <<>>))
    /\ lk' = lk
    /\ io' = BeginCall("hb", DriverFrames("heartbeat", <<>>))
    /\ slept' = [slept EXCEPT !["hb"] = 0]
    /\ hb' = [pc |-> "beat", started |-> TRUE]
    /\ UNCHANGED <<args_target, fg, link, keep, notMain>>
HbLock ==
    /\ hb.pc = "lock"
    /\ lk.dev = "free"
    /\ Room(DriverFrames("heartbeat", <<>>))
    /\ lk' = [lk EXCEPT !.dev = "hb"]
    /\ io' = BeginCall("hb", DriverFrames("heartbeat", <<>>))
    /\ slept' = [slept EXCEPT !["hb"] = 0]
    /\ hb' = [pc |-> "beat", started |-> TRUE]
    /\ UNCHANGED <<args_target, fg, link, keep, notMain>>

\* main.rs, line 62: heartbeat() has returned; the guard d is dropped.
HbUnlockMut ==
    /\ hb.pc = "beat"
    /\ io["hb"].pend = <<>>
    /\ hb' = [hb EXCEPT !.pc = "sleep"]
    /\ UNCHANGED <<args_target, fg, lk, io, slept, link, keep, notMain>>
HbUnlock ==
    /\ hb.pc = "beat"
    /\ io["hb"].pend = <<>>
    /\ lk' = [lk EXCEPT !.dev = IF @ = "hb" THEN "free" ELSE @]
    /\ hb' = [hb EXCEPT !.pc = "sleep"]
    /\ UNCHANGED <<args_target, fg, io, slept, link, keep, notMain>>

\* main.rs, line 63: thread::sleep(1 s), then the loop's next iteration.
HbSleepMut ==
    /\ hb.pc = "sleep"
    /\ slept' = [slept EXCEPT !["hb"] = Slept(@, 1000)]
    /\ hb' = [hb EXCEPT !.pc = "done"]
    /\ UNCHANGED <<args_target, fg, lk, io, link, keep, notMain>>
HbSleep ==
    /\ hb.pc = "sleep"
    /\ slept' = [slept EXCEPT !["hb"] = Slept(@, 1000)]
    /\ hb' = [hb EXCEPT !.pc = "lock"]
    /\ UNCHANGED <<args_target, fg, lk, io, link, keep, notMain>>

\* main.rs, line 93: engine.navigate(&args.target) is called.
FgNavigate ==
    /\ fg.pc = "navigate"
    /\ fg' = [fg EXCEPT !.pc = "nav", !.arg = args_target, !.ops = 0,
                        !.result = NoResult, !.ran = <<>>, !.calls = <<>>]
    /\ UNCHANGED <<args_target, hb, lk, io, slept, link, keep, notMain>>

\* Inside navigate: a round clicks through the HumanDriver (at most one click
\* a round, so at most MaxNavRounds a call).
FgNavClick ==
    /\ fg.pc = "nav"
    /\ fg.q = <<>>
    /\ fg.ops < MaxNavRounds
    /\ \E delta \in MoveDeltas :
          fg' = [fg EXCEPT !.ops = @ + 1,
                           !.q = <<Ins("lock_human")>> \o HumanClickAt(delta)
                                    \o <<Ins("unlock_human")>>]
    /\ UNCHANGED <<args_target, hb, lk, io, slept, link, keep, notMain>>

\* navigate returns: main.rs, line 93, nav_result is any NavResult.
FgNavReturn ==
    /\ fg.pc = "nav"
    /\ fg.q = <<>>
    /\ \E r \in NavResults : fg' = [fg EXCEPT !.pc = "match", !.result = r]
    /\ UNCHANGED <<args_target, hb, lk, io, slept, link, keep, notMain>>

\* main.rs, lines 97-124: NavResult::Handover, the module is started.
FgHandover ==
    /\ fg.pc = "match"
    /\ fg.result.kind = "Handover"
    /\ fg' = [fg EXCEPT !.pc = "module", !.ops = 0,
                        !.ran = Append(@, ModuleFor(fg.result.scene,
                                                    fg.result.handler))]
    /\ UNCHANGED <<args_target, hb, lk, io, slept, link, keep, notMain>>

\* Inside the task module's run: an operation through the HumanDriver.
FgModuleOp ==
    /\ fg.pc = "module"
    /\ fg.q = <<>>
    /\ fg.ops < MaxModuleOps
    /\ \E delta \in MoveDeltas : \E flow \in ModuleOps(Last(fg.ran).app, delta) :
          fg' = [fg EXCEPT !.ops = @ + 1, !.q = flow]
    /\ UNCHANGED <<args_target, hb, lk, io, slept, link, keep, notMain>>

\* The module's run returns: main.rs, lines 126-127 follow.
FgModuleReturn ==
    /\ fg.pc = "module"
    /\ fg.q = <<>>
    /\ fg' = [fg EXCEPT !.pc = "exec", !.q = HandoverTail]
    /\ UNCHANGED <<args_target, hb, lk, io, slept, link, keep, notMain>>

\* main.rs, lines 130-148: NavResult::Failed.
FgFailed ==
    /\ fg.pc = "match"
    /\ fg.result = Failed
    /\ fg' = [fg EXCEPT !.pc = "exec", !.q = FailedBranch]
    /\ UNCHANGED <<args_target, hb, lk, io, slept, link, keep, notMain>>

\* main.rs, lines 150-153: NavResult::Success.
FgSuccess ==
    /\ fg.pc = "match"
    /\ fg.result = Success
    /\ fg' = [fg EXCEPT !.pc = "exec", !.q = SuccessBranch]
    /\ UNCHANGED <<args_target, hb, lk, io, slept, link, keep, notMain>>

\* main.rs, lines 90 and 155: the branch is done; the loop starts over.
FgLoop ==
    /\ fg.pc = "exec"
    /\ fg.q = <<>>
    /\ io["fg"].pend = <<>>
    /\ fg' = [fg EXCEPT !.pc = "navigate"]
    /\ UNCHANGED <<args_target, hb, lk, io, slept, link, keep, notMain>>

\* The foreground is at instruction op: its last driver call has returned.
FgAt(op) ==
    /\ fg.q # <<>>
    /\ Head(fg.q).op = op
    /\ io["fg"].pend = <<>>

\* human_driver.lock(): main.rs, line 133.
FgLockHuman ==
    /\ FgAt("lock_human")
    /\ lk.human = "free"
    /\ lk' = [lk EXCEPT !.human = "fg"]
    /\ fg' = [fg EXCEPT !.q = Tail(@)]
    /\ UNCHANGED <<args_target, hb, io, slept, link, keep, notMain>>

\* The HumanDriver guard is dropped: main.rs, line 144.
FgUnlockHuman ==
    /\ FgAt("unlock_human")
    /\ lk' = [lk EXCEPT !.human = "free"]
    /\ fg' = [fg EXCEPT !.q = Tail(@)]
    /\ UNCHANGED <<args_target, hb, io, slept, link, keep, notMain>>

\* human.device.lock(): main.rs, lines 137 and 141.
FgLockDev ==
    /\ FgAt("lock_dev")
    /\ lk.dev = "free"
    /\ lk' = [lk EXCEPT !.dev = "fg"]
    /\ fg' = [fg EXCEPT !.q = Tail(@)]
    /\ UNCHANGED <<args_target, hb, io, slept, link, keep, notMain>>

\* dev.key_down(..), dev.key_up(): main.rs, lines 138 and 142; the call begins.
FgCall ==
    /\ FgAt("call")
    /\ Room(DriverFrames(Head(fg.q).f, Head(fg.q).a))
    /\ io' = BeginCall("fg", DriverFrames(Head(fg.q).f, Head(fg.q).a))
    /\ fg' = [fg EXCEPT !.q = Tail(@),
                        !.calls = IF fg.pc = "exec"
                                  THEN Append(@, [f |-> Head(fg.q).f,
                                                  a |-> Head(fg.q).a,
                                                  gap |-> slept["fg"]])
                                  ELSE @]
    /\ slept' = [slept EXCEPT !["fg"] = 0]
    /\ UNCHANGED <<args_target, hb, lk, link, keep, notMain>>

\* The device guard is dropped: main.rs, lines 139 and 143.
FgUnlockDev ==
    /\ FgAt("unlock_dev")
    /\ lk' = [lk EXCEPT !.dev = IF @ = "fg" THEN "free" ELSE @]
    /\ fg' = [fg EXCEPT !.q = Tail(@)]
    /\ UNCHANGED <<args_target, hb, io, slept, link, keep, notMain>>

\* thread::sleep: main.rs, lines 127, 140, 147, 152.
FgSleep ==
    /\ FgAt("sleep")
    /\ slept' = [slept EXCEPT !["fg"] = Slept(@, Head(fg.q).ms)]
    /\ fg' = [fg EXCEPT !.q = Tail(@)]
    /\ UNCHANGED <<args_target, hb, lk, io, link, keep, notMain>>

FgNext ==
    \/ FgNavigate \/ FgNavClick \/ FgNavReturn
    \/ FgHandover \/ FgModuleOp \/ FgModuleReturn
    \/ FgFailed \/ FgSuccess \/ FgLoop
    \/ FgLockHuman \/ FgUnlockHuman \/ FgLockDev \/ FgCall \/ FgUnlockDev
    \/ FgSleep
    \/ WriteByte("fg") \/ Settle("fg")

HbNext == HbLock \/ HbUnlock \/ HbSleep \/ WriteByte("hb") \/ Settle("hb")

Next == FgNext \/ HbNext

Spec == Init /\ [][Next]_vars

(***************************************************************************)
(* LiveSpec: the same process without the transcript of the link, run      *)
(* forever.  Both threads are scheduled fairly; the heartbeat's lock() is  *)
(* granted if the mutex is free again and again (the foreground frees it   *)
(* after every driver call).                                               *)
(***************************************************************************)
InitLive == InitMain(FALSE)

HbRun == HbUnlock \/ HbSleep \/ WriteByte("hb") \/ Settle("hb")

LiveSpec ==
    /\ InitLive
    /\ [][Next]_vars
    /\ WF_vars(FgNext)
    /\ WF_vars(HbRun)
    /\ SF_vars(HbLock)

(***************************************************************************)
(* SpecStart: main() from its entry (main.rs, 26-88) to the test run and    *)
(* the return (74-85) or to the supervisory loop (90-155), whose iterations *)
(* are taken whole here: navigate, the match branch, the cooldown.          *)
(* Strings that the code inspects by character are sequences of ASCII       *)
(* codes.                                                                   *)
(***************************************************************************)
SOFT == <<83, 79, 70, 84>>        \* "SOFT"

\* str::to_uppercase on ASCII text.
ToUpper(str) ==
    [i \in 1..Len(str) |-> IF str[i] \in 97..122 THEN str[i] - 32 ELSE str[i]]

\* The port arguments drawn: "SOFT", "soft", "Soft", "SOFTY", "COM3", "".
Ports == {SOFT, <<115, 111, 102, 116>>, <<83, 111, 102, 116>>,
          <<83, 79, 70, 84, 89>>, <<67, 79, 77, 51>>, <<>>}

\* The --test arguments drawn; None is the absent option.
TestModes == {None, "input", "screen", "ocr", "scroll", "INPUT", "bogus"}

\* main.rs, lines 41-45: the driver type chosen from args.port.
DriverTypeOfMut(port) == IF port = SOFT THEN "Software" ELSE "Hardware"
DriverTypeOf(port) == IF ToUpper(port) = SOFT THEN "Software" ELSE "Hardware"

\* create_driver (hardware.rs, 267-283) with HardwareDriver::new (54-61): the
\* serial port opens or the error is passed on by `?`.  SoftwareDriver::new
\* (164-173) unwraps Enigo::new, taken to succeed with the default settings.
CreateDriver(t, opens) ==
    IF t = "Hardware"
    THEN IF opens THEN [ok |-> TRUE, drv |-> "hw"] ELSE [ok |-> FALSE, drv |-> None]
    ELSE [ok |-> TRUE, drv |-> "sw"]

\* main.rs, lines 77-83: the test a mode runs; the `_` arm only prints.
TestOf(mode) ==
    CASE mode = "input" -> <<"run_input_test">>
      [] mode = "screen" -> <<"run_screen_test">>
      [] mode = "ocr" -> <<"run_ocr_test">>
      [] mode = "scroll" -> <<"run_scroll_test">>
      [] OTHER -> <<>>

\* main.rs, lines 94-154: the statements of the branch a result selects.
BranchOf(r) ==
    CASE r.kind = "Handover" -> HandoverTail
      [] r.kind = "Failed" -> FailedBranch
      [] OTHER -> SuccessBranch

InitStart ==
    /\ MainIdle
    /\ mv = MoveIdle
    /\ ab = AbsIdle
    /\ nv = NavIdle
    /\ sd = SoftIdle
    /\ dc = CallIdle
    /\ LaterIdle
    /\ \E port \in Ports, target \in MainTargets, test \in TestModes,
          opens \in BOOLEAN :
          st = [StartIdle EXCEPT !.pc = "select", !.port = port,
                                 !.target = target, !.test = test,
                                 !.opens = opens]

\* Lines 41-45.
StSelect ==
    /\ st.pc = "select"
    /\ st' = [st EXCEPT !.pc = "create", !.driver_type = DriverTypeOf(st.port)]
    /\ UNCHANGED notStart

\* Line 47: create_driver(driver_type, &args.port, sw, sh), and the Ok arm.
StCreate ==
    /\ st.pc = "create"
    /\ LET r == CreateDriver(st.driver_type, st.opens)
       IN  st' = [st EXCEPT !.created = r.ok,
                            !.driver_box = r.drv,
                            !.pc = IF r.ok THEN "spawn" ELSE "fallback"]
    /\ UNCHANGED notStart

\* Lines 49-53: the Err arm warns and creates the software driver.
StFallback ==
    /\ st.pc = "fallback"
    /\ st' = [st EXCEPT !.warned = TRUE,
                        !.driver_box = CreateDriver("Software", st.opens).drv,
                        !.pc = "spawn"]
    /\ UNCHANGED notStart

\* Lines 56-64: the driver goes behind the mutex; the heartbeat thread starts.
StSpawn ==
    /\ st.pc = "spawn"
    /\ st' = [st EXCEPT !.hb = st.driver_box, !.pc = "engine"]
    /\ UNCHANGED notStart

\* Lines 66-72: the HumanDriver on the same device, the engine on it.
StEngine ==
    /\ st.pc = "engine"
    /\ st' = [st EXCEPT !.human = st.driver_box, !.engine = "ui_map.toml",
                        !.pc = "dispatch"]
    /\ UNCHANGED notStart

\* Lines 74-76 and 87-88: the test selector decides; either way 5 s of sleep.
StDispatch ==
    /\ st.pc = "dispatch"
    /\ st' = [st EXCEPT !.slept = 5000,
                        !.pc = IF st.test # None THEN "test" ELSE "loop"]
    /\ UNCHANGED notStart

\* Lines 77-83: match mode.
StTest ==
    /\ st.pc = "test"
    /\ st' = [st EXCEPT !.ran = @ \o TestOf(st.test), !.pc = "return"]
    /\ UNCHANGED notStart

\* Line 84: return; the process exits and its heartbeat thread with it.
StReturnMut ==
    /\ st.pc = "return"
    /\ st' = [st EXCEPT !.pc = "loop"]
    /\ UNCHANGED notStart
StReturn ==
    /\ st.pc = "return"
    /\ st' = [st EXCEPT !.pc = "exited", !.hb = None]
    /\ UNCHANGED notStart

\* Line 93: engine.navigate(&args.target) runs and returns some NavResult.
StNavigate ==
    /\ st.pc = "loop"
    /\ \E r \in NavResults :
          st' = [st EXCEPT !.pc = "match", !.navigated = TRUE,
                           !.arg = st.target, !.result = r,
                           !.module = <<>>, !.cool = 0]
    /\ UNCHANGED notStart

\* Lines 94-154: the branch of the result, through its last sleep.
StBranch ==
    /\ st.pc = "match"
    /\ st' = [st EXCEPT
                !.module = IF st.result.kind = "Handover"
                           THEN <<ModuleFor(st.result.scene, st.result.handler)>>
                           ELSE <<>>,
                !.cool = Last(BranchOf(st.result)).ms,
                !.pc = "loop"]
    /\ UNCHANGED notStart

NextStart ==
    \/ StSelect \/ StCreate \/ StFallback \/ StSpawn \/ StEngine
    \/ StDispatch \/ StTest \/ StReturn \/ StNavigate \/ StBranch

\* The process runs as long as it has a step to take.
SpecStart == InitStart /\ [][NextStart]_vars /\ WF_vars(NextStart)

(***************************************************************************)
(* SpecSoft: SoftwareDriver (hardware.rs, 153-257), its keyboard calls.     *)
(* The log holds the key events handed to enigo, in order.                  *)
(***************************************************************************)
Unicode(c) == [k |-> "Unicode", c |-> c]
Special(name) == [k |-> name, c |-> 0]

\* hid_to_enigo, lines 176-207.
HidToEnigo(hid) ==
    CASE hid \in 4..29 -> Unicode(97 + (hid - 4))
      [] hid \in 30..39 -> Unicode(IF hid = 39 THEN 48 ELSE 49 + (hid - 30))
      [] hid = 40 -> Special("Return")
      [] hid = 41 -> Special("Escape")
      [] hid = 42 -> Special("Backspace")
      [] hid = 43 -> Special("Tab")
      [] hid = 44 -> Special("Space")
      [] hid = 45 -> Unicode(45)
      [] hid = 46 -> Unicode(61)
      [] hid = 47 -> Unicode(91)
      [] hid = 48 -> Unicode(93)
      [] hid = 49 -> Unicode(92)
      [] hid = 51 -> Unicode(59)
      [] hid = 52 -> Unicode(39)
      [] hid = 54 -> Unicode(44)
      [] hid = 55 -> Unicode(46)
      [] hid = 56 -> Unicode(47)
      [] hid = 224 -> Special("Control")
      [] hid = 225 -> Special("Shift")
      [] hid = 226 -> Special("Alt")
      [] OTHER -> NoKey

\* modifier & mask != 0, for a one-bit mask.
BitSet(v, mask) == (v \div mask) % 2 = 1

\* One enigo.key(key, direction) of call number n; line names the statement.
KeyEvent(n, key, dir, line) == [call |-> n, key |-> key, dir |-> dir, line |-> line]

\* heartbeat, line 211, and switch_identity, line 212: empty bodies.
SoftHeartbeatMut(d) == [d EXCEPT !.last_key = NoKey]
SoftHeartbeat(d) == d
SoftSwitchIdentity(d, index) == d

\* key_down, lines 239-248: the events injected and the key recorded.
SoftKeyDown(d, n, keycode, modifier) ==
    LET shift == IF BitSet(modifier, 2) \/ BitSet(modifier, 32)
                 THEN <<KeyEvent(n, Special("Shift"), "Press", 241)>> ELSE <<>>
        key == HidToEnigo(keycode)
    IN  IF key # NoKey
        THEN [d EXCEPT !.log = @ \o shift \o <<KeyEvent(n, key, "Press", 245)>>,
                       !.last_key = key]
        ELSE [d EXCEPT !.log = @ \o shift]

\* key_up, lines 250-256.
SoftKeyUpMut(d, n) ==
    [d EXCEPT !.log = @ \o (IF d.last_key # NoKey
                            THEN <<KeyEvent(n, d.last_key, "Release", 252)>>
                            ELSE <<>>)
                        \o <<KeyEvent(n, Special("Shift"), "Release", 255)>>]
SoftKeyUp(d, n) ==
    [d EXCEPT !.log = @ \o (IF d.last_key # NoKey
                            THEN <<KeyEvent(n, d.last_key, "Release", 252)>>
                            ELSE <<>>)
                        \o <<KeyEvent(n, Special("Shift"), "Release", 255)>>,
              !.last_key = NoKey]

\* The arguments drawn: 'a', Escape, Shift as a key, two keycodes without a
\* mapping; no modifier, left Shift, right Shift, left Control.
KeyCodes == {4, 41, 225, 0, 50}
Modifiers == {0, 2, 32, 1}

\* SoftwareDriver::new, lines 164-173.
InitSoft ==
    /\ MainIdle
    /\ mv = MoveIdle
    /\ ab = AbsIdle
    /\ nv = NavIdle
    /\ st = StartIdle
    /\ dc = CallIdle
    /\ LaterIdle
    /\ sd = [SoftIdle EXCEPT !.pc = "ready", !.screen_w = sw, !.screen_h = sh]

SoftCallKeyDown ==
    /\ sd.pc = "ready"
    /\ Len(sd.calls) < MaxSoftCalls
    /\ \E keycode \in KeyCodes, modifier \in Modifiers :
          sd' = [SoftKeyDown(sd, Len(sd.calls) + 1, keycode, modifier) EXCEPT
                    !.calls = Append(@, [f |-> "key_down", keycode |-> keycode,
                                         modifier |-> modifier])]
    /\ UNCHANGED notSoft

SoftCallKeyUp ==
    /\ sd.pc = "ready"
    /\ Len(sd.calls) < MaxSoftCalls
    /\ sd' = [SoftKeyUp(sd, Len(sd.calls) + 1) EXCEPT
                 !.calls = Append(@, [f |-> "key_up", keycode |-> 0,
                                      modifier |-> 0])]
    /\ UNCHANGED notSoft

\* The heartbeat thread's call in software mode.
SoftCallHeartbeat ==
    /\ sd.pc = "ready"
    /\ Len(sd.calls) < MaxSoftCalls
    /\ sd' = [SoftHeartbeat(sd) EXCEPT
                 !.calls = Append(@, [f |-> "heartbeat", keycode |-> 0,
                                      modifier |-> 0])]
    /\ UNCHANGED notSoft

\* switch_identity(index); the record keeps index in its first argument slot.
SoftCallSwitchIdentity ==
    /\ sd.pc = "ready"
    /\ Len(sd.calls) < MaxSoftCalls
    /\ \E index \in {0, 1} :
          sd' = [SoftSwitchIdentity(sd, index) EXCEPT
                    !.calls = Append(@, [f |-> "switch_identity", keycode |-> index,
                                         modifier |-> 0])]
    /\ UNCHANGED notSoft

NextSoft ==
    SoftCallKeyDown \/ SoftCallKeyUp \/ SoftCallHeartbeat \/ SoftCallSwitchIdentity

SpecSoft == InitSoft /\ [][NextSoft]_vars

(***************************************************************************)
(* SpecCall: one InputDriver call on a HardwareDriver (hardware.rs, 80-148) *)
(* taken frame by frame through send_raw (63-74), on a port whose write_all *)
(* and flush may each fail.                                                 *)
(***************************************************************************)
DrawnCall(f, a) == [CallIdle EXCEPT !.pc = "call", !.f = f, !.a = a]

InitCall ==
    /\ MainIdle
    /\ mv = MoveIdle
    /\ ab = AbsIdle
    /\ nv = NavIdle
    /\ st = StartIdle
    /\ sd = SoftIdle
    /\ LaterIdle
    /\ \/ dc = DrawnCall("heartbeat", <<>>)
       \/ \E index \in {0, 1, 255} : dc = DrawnCall("switch_identity", <<index>>)
       \/ \E x \in {0, 960, 1920, 65535}, y \in {0, 540, 65535} :
             dc = DrawnCall("mouse_abs", <<x, y>>)
       \/ \E dx \in {-300, -1, 0, 1, 127, 128, 300}, dy \in {-130, 0, 5},
             wheel \in Wheels :
             dc = DrawnCall("mouse_move", <<dx, dy, wheel>>)
       \/ \E left \in BOOLEAN, right \in BOOLEAN :
             dc = DrawnCall("mouse_down", <<left, right>>)
       \/ dc = DrawnCall("mouse_up", <<>>)
       \/ \E keycode \in {0, 4, 41, 255}, modifier \in {0, 2, 255} :
             dc = DrawnCall("key_down", <<keycode, modifier>>)
       \/ dc = DrawnCall("key_up", <<>>)

\* The call is entered: the frames it goes on to hand to send_raw, in order.
CallEnter ==
    /\ dc.pc = "call"
    /\ LET frames == DriverFrames(dc.f, dc.a)
       IN  dc' = [dc EXCEPT !.pend = frames,
                            !.pc = IF frames = <<>> THEN "return" ELSE "write"]
    /\ UNCHANGED notCall

\* send_raw, line 71: `let _ = self.port.write_all(&frame)`.
CallWriteMut ==
    /\ dc.pc = "write"
    /\ \E res \in {"ok", "err"} :
          dc' = IF res = "ok"
                THEN [dc EXCEPT !.wrote = res, !.pc = "flush"]
                ELSE [dc EXCEPT !.wrote = res, !.pc = "done", !.ret = "err"]
    /\ UNCHANGED notCall
CallWrite ==
    /\ dc.pc = "write"
    /\ \E res \in {"ok", "err"} : dc' = [dc EXCEPT !.wrote = res, !.pc = "flush"]
    /\ UNCHANGED notCall

\* send_raw, line 72: `let _ = self.port.flush()`.
CallFlush ==
    /\ dc.pc = "flush"
    /\ \E res \in {"ok", "err"} : dc' = [dc EXCEPT !.flushed = res, !.pc = "settle"]
    /\ UNCHANGED notCall

\* send_raw, lines 73-74: the settle sleep, then back in the driver method.
CallSettle ==
    /\ dc.pc = "settle"
    /\ dc' = [dc EXCEPT
                !.tried = Append(@, [frame |-> Head(dc.pend), wrote |-> dc.wrote,
                                     flushed |-> dc.flushed, settle |-> SettleMs]),
                !.pend = Tail(@),
                !.wrote = None,
                !.flushed = None,
                !.pc = IF Tail(dc.pend) = <<>> THEN "return" ELSE "write"]
    /\ UNCHANGED notCall

\* The driver method returns ().
CallReturn ==
    /\ dc.pc = "return"
    /\ dc' = [dc EXCEPT !.pc = "done", !.ret = "unit"]
    /\ UNCHANGED notCall

NextCall == CallEnter \/ CallWrite \/ CallFlush \/ CallSettle \/ CallReturn

SpecCall == InitCall /\ [][NextCall]_vars

(***************************************************************************)
(* SpecScene: the scene evidence rule (spec, section 3) on a drawn scene   *)
(* and a drawn set of anchors that evaluate true; then single anchors      *)
(* change their value and the scene is evaluated again.                    *)
(***************************************************************************)
AnchorIds == 1..MaxAnchors

InitScene ==
    /\ MainIdle
    /\ mv = MoveIdle
    /\ ab = AbsIdle
    /\ nv = NavIdle
    /\ st = StartIdle
    /\ sd = SoftIdle
    /\ dc = CallIdle
    /\ ps = SlotIdle
    /\ dr = DailyIdle
    /\ tl = ToolIdle
    /\ \E logic \in {"and", "or"}, n \in 0..MaxAnchors, frame \in SUBSET AnchorIds :
          sc = [SceneIdle EXCEPT !.pc = "drawn",
                                 !.scene = [logic |-> logic,
                                            anchors |-> [i \in 1..n |-> i]],
                                 !.frame = frame]

\* The scene is evaluated against the frame.
SceneEvaluate ==
    /\ sc.pc = "drawn"
    /\ sc' = [sc EXCEPT !.pc = "seen", !.active = SceneActive(sc.scene, sc.frame)]
    /\ UNCHANGED notScene

\* One anchor of the scene changes its value; the scene is evaluated again.
SceneFlip ==
    /\ sc.pc = "seen"
    /\ \E i \in 1..Len(sc.scene.anchors) :
          LET a == sc.scene.anchors[i]
              frame == IF a \in sc.frame THEN sc.frame \ {a} ELSE sc.frame \cup {a}
          IN  sc' = [sc EXCEPT !.frame = frame,
                               !.was = sc.active,
                               !.flipped = a,
                               !.active = SceneActive(sc.scene, frame)]
    /\ UNCHANGED notScene

NextScene == SceneEvaluate \/ SceneFlip

SpecScene == InitScene /\ [][NextScene]_vars

(***************************************************************************)
(* DailyRoutineApp: daily_routine.rs.  A text is the sequence of its       *)
(* characters' code points.                                                *)
(***************************************************************************)
CH_YI == 24050        \* U+5DF2, first character of the two terminal markers
CH_WAN == 23436       \* U+5B8C
CH_CHENG == 25104     \* U+6210
CH_LING == 39046      \* U+9886
CH_QU == 21462        \* U+53D6
CH_GO == 21435        \* U+53BB
CH_WEI == 26410       \* U+672A
CH_OTHER == 20013     \* U+4E2D, a character of none of the markers

FINISHED == <<CH_YI, CH_WAN, CH_CHENG>>     \* line 104, first literal
CLAIMED == <<CH_YI, CH_LING, CH_QU>>        \* line 104, second literal
CLAIMABLE == <<CH_LING, CH_QU>>             \* line 110
GO_FINISH == <<CH_GO, CH_WAN, CH_CHENG>>    \* line 130, first literal
UNFINISHED == <<CH_WEI, CH_WAN, CH_CHENG>>  \* line 130, second literal

\* char::is_whitespace: the code points with the White_Space property.
IsWhitespace(c) ==
    c \in (9..13) \cup {32, 133, 160, 5760} \cup (8192..8202)
              \cup {8232, 8233, 8239, 8287, 12288}

\* Line 94: text.replace(|c: char| c.is_whitespace(), "").
StripWhitespace(text) == SelectSeq(text, LAMBDA c : ~IsWhitespace(c))

\* str::contains(pat): pat occurs in text as a contiguous run.
Contains(text, pat) ==
    \E k \in 0..(Len(text) - Len(pat)) : SubSeq(text, k + 1, k + Len(pat)) = pat

\* Lines 26-47: the four task slots.
slots == <<
    [index |-> 1, status_rect |-> <<559, 914, 768, 963>>, refresh_pos |-> <<784, 311>>],
    [index |-> 2, status_rect |-> <<899, 901, 1104, 977>>, refresh_pos |-> <<1124, 314>>],
    [index |-> 3, status_rect |-> <<1238, 901, 1439, 968>>, refresh_pos |-> <<1465, 318>>],
    [index |-> 4, status_rect |-> <<1560, 895, 1792, 968>>, refresh_pos |-> <<1804, 316>>] >>

\* `v as u16`.
AsU16(v) == v % 65536

\* What process_slot does through the HumanDriver, one record per statement.
HumanOp(op) == [op |-> op, x |-> 0, y |-> 0, duration |-> None, left |-> FALSE,
                right |-> FALSE, hold |-> 0, char |-> 0, ms |-> 0]
MoveToHumanly(x, y, duration) ==
    [HumanOp("move_to_humanly") EXCEPT !.x = x, !.y = y, !.duration = duration]
ClickHumanly(left, right, hold) ==
    [HumanOp("click_humanly") EXCEPT !.left = left, !.right = right, !.hold = hold]
KeyClick(char) == [HumanOp("key_click") EXCEPT !.char = char]
ThreadSleep(ms) == [HumanOp("sleep") EXCEPT !.ms = ms]

\* Lines 104-150: the branch the cleaned text selects, in the order tested.
BranchOfTextMut(clean_text) ==
    IF Contains(clean_text, CLAIMABLE)
    THEN "claim"
    ELSE IF Contains(clean_text, FINISHED) \/ Contains(clean_text, CLAIMED)
    THEN "terminal"
    ELSE IF Contains(clean_text, GO_FINISH) \/ Contains(clean_text, UNFINISHED)
    THEN "refresh"
    ELSE IF clean_text = <<>> THEN "empty" ELSE "unknown"
BranchOfText(clean_text) ==
    IF Contains(clean_text, FINISHED) \/ Contains(clean_text, CLAIMED)
    THEN "terminal"
    ELSE IF Contains(clean_text, CLAIMABLE)
    THEN "claim"
    ELSE IF Contains(clean_text, GO_FINISH) \/ Contains(clean_text, UNFINISHED)
    THEN "refresh"
    ELSE IF clean_text = <<>> THEN "empty" ELSE "unknown"

\* Lines 112-125: the claim branch.  The foreground is the only thread that
\* locks the HumanDriver mutex, so lock() is never Err (poisoned).
ClaimInputs(slot) ==
    LET cx == (slot.status_rect[1] + slot.status_rect[3]) \div 2
        cy == (slot.status_rect[2] + slot.status_rect[4]) \div 2
    IN  <<HumanOp("lock"),
          MoveToHumanly(AsU16(cx), AsU16(cy), "0.5"),
          ClickHumanly(TRUE, FALSE, 0),
          ThreadSleep(1000),
          KeyClick(SPACE),
          ThreadSleep(1000),
          KeyClick(SPACE),
          HumanOp("unlock")>>

\* Lines 132-139: the refresh branch.
RefreshInputs(slot) ==
    <<HumanOp("lock"),
      MoveToHumanly(slot.refresh_pos[1], slot.refresh_pos[2], "0.5"),
      ClickHumanly(TRUE, FALSE, 0),
      ThreadSleep(500),
      HumanOp("unlock")>>

\* process_slot(slot) when nav.ocr_area returns text: what it does through
\* the HumanDriver and what it returns.
ProcessSlot(slot, text) ==
    LET clean_text == StripWhitespace(text)
        branch == BranchOfText(clean_text)
    IN  [clean_text |-> clean_text,
         inputs |-> CASE branch = "claim" -> ClaimInputs(slot)
                      [] branch = "refresh" -> RefreshInputs(slot)
                      [] OTHER -> <<>>,
         ret |-> branch \in {"claim", "refresh"}]

(***************************************************************************)
(* SpecSlot: one process_slot call on a drawn slot and a drawn OCR text.   *)
(***************************************************************************)
TextChars == {CH_YI, CH_WAN, CH_CHENG, CH_LING, CH_QU, CH_GO, CH_WEI, SPACE, CH_OTHER}

\* Longer readings: markers with spaces and line breaks between characters,
\* and texts that carry two markers.
LongTexts ==
    {<<CH_YI, SPACE, CH_WAN, SPACE, CH_CHENG>>,
     <<CH_YI, 10, CH_LING, 12288, CH_QU>>,
     <<CH_LING, SPACE, SPACE, SPACE, CH_QU>>,
     GO_FINISH \o CLAIMABLE,
     CLAIMABLE \o <<SPACE>> \o UNFINISHED,
     CLAIMED \o UNFINISHED,
     GO_FINISH \o FINISHED}

Texts == UNION {[1..n -> TextChars] : n \in 0..MaxTextLen} \cup LongTexts

InitSlot ==
    /\ MainIdle
    /\ mv = MoveIdle
    /\ ab = AbsIdle
    /\ nv = NavIdle
    /\ st = StartIdle
    /\ sd = SoftIdle
    /\ dc = CallIdle
    /\ sc = SceneIdle
    /\ dr = DailyIdle
    /\ tl = ToolIdle
    /\ \E i \in 1..Len(slots), text \in Texts :
          ps = [SlotIdle EXCEPT !.pc = "ocr", !.slot = i, !.text = text]

\* Lines 92-94: the text is read and cleaned.
SlotClean ==
    /\ ps.pc = "ocr"
    /\ ps' = [ps EXCEPT !.pc = "match", !.clean_text = StripWhitespace(ps.text)]
    /\ UNCHANGED notSlot

\* Lines 104-107: a terminal text.
SlotTerminal ==
    /\ ps.pc = "match"
    /\ BranchOfText(ps.clean_text) = "terminal"
    /\ ps' = [ps EXCEPT !.pc = "done", !.ret = FALSE]
    /\ UNCHANGED notSlot

\* Lines 110-127: a claimable reward.
SlotClaim ==
    /\ ps.pc = "match"
    /\ BranchOfText(ps.clean_text) = "claim"
    /\ ps' = [ps EXCEPT !.pc = "done", !.inputs = ClaimInputs(slots[ps.slot]),
                        !.ret = TRUE]
    /\ UNCHANGED notSlot

\* Lines 130-141: an unfinished task.
SlotRefresh ==
    /\ ps.pc = "match"
    /\ BranchOfText(ps.clean_text) = "refresh"
    /\ ps' = [ps EXCEPT !.pc = "done", !.inputs = RefreshInputs(slots[ps.slot]),
                        !.ret = TRUE]
    /\ UNCHANGED notSlot

\* Lines 144-150: nothing read, or nothing recognized.
SlotSkip ==
    /\ ps.pc = "match"
    /\ BranchOfText(ps.clean_text) \in {"empty", "unknown"}
    /\ ps' = [ps EXCEPT !.pc = "done", !.ret = FALSE]
    /\ UNCHANGED notSlot

NextSlot == SlotClean \/ SlotTerminal \/ SlotClaim \/ SlotRefresh \/ SlotSkip

SpecSlot == InitSlot /\ [][NextSlot]_vars

(***************************************************************************)
(* SpecDaily: one DailyRoutineApp::run, daily_routine.rs, lines 53-85, the *)
(* OCR text of every slot drawn anew at every scan.  The sleeps of lines   *)
(* 71 and 81 change nothing the model records.                             *)
(***************************************************************************)
max_rounds == 10

\* What a slot may read at a scan.
DailyTexts == {FINISHED, CLAIMED, CLAIMABLE, GO_FINISH, UNFINISHED, <<>>, <<CH_OTHER>>}

\* The button clicks among the inputs of one process_slot call.
RECURSIVE ClicksIn(_)
ClicksIn(inputs) ==
    IF inputs = <<>> THEN 0
    ELSE (IF Head(inputs).op = "click_humanly" THEN 1 ELSE 0) + ClicksIn(Tail(inputs))

InitDaily ==
    /\ MainIdle
    /\ mv = MoveIdle
    /\ ab = AbsIdle
    /\ nv = NavIdle
    /\ st = StartIdle
    /\ sd = SoftIdle
    /\ dc = CallIdle
    /\ sc = SceneIdle
    /\ ps = SlotIdle
    /\ tl = ToolIdle
    /\ dr = [DailyIdle EXCEPT !.pc = "for", !.clicks = [i \in 1..Len(slots) |-> 0]]

\* Lines 59-62: the next round begins.
DailyRoundBeginMut ==
    /\ dr.pc = "for"
    /\ dr.round < max_rounds + 1
    /\ dr' = [dr EXCEPT !.pc = "slot", !.round = @ + 1, !.need_retry = FALSE,
                        !.i = 1, !.order = <<>>]
    /\ UNCHANGED notDaily
DailyRoundBegin ==
    /\ dr.pc = "for"
    /\ dr.round < max_rounds
    /\ dr' = [dr EXCEPT !.pc = "slot", !.round = @ + 1, !.need_retry = FALSE,
                        !.i = 1, !.order = <<>>]
    /\ UNCHANGED notDaily

\* Lines 65-72: the next slot is processed.
DailySlot ==
    /\ dr.pc = "slot"
    /\ \E text \in DailyTexts :
          LET slot == slots[dr.i]
              processed == ProcessSlot(slot, text)
          IN  dr' = [dr EXCEPT
                        !.clicks[dr.i] = @ + ClicksIn(processed.inputs),
                        !.need_retry = IF processed.ret THEN TRUE ELSE @,
                        !.order = Append(@, slot.index),
                        !.i = @ + 1,
                        !.pc = IF dr.i = Len(slots) THEN "check" ELSE "slot"]
    /\ UNCHANGED notDaily

\* Lines 74-77: no slot was acted on; break.
DailyBreak ==
    /\ dr.pc = "check"
    /\ ~dr.need_retry
    /\ dr' = [dr EXCEPT !.pc = "done", !.acted = Append(@, FALSE)]
    /\ UNCHANGED notDaily

\* Lines 80-82: a slot was acted on; wait 2 s and go to the loop's head.
DailyRetry ==
    /\ dr.pc = "check"
    /\ dr.need_retry
    /\ dr' = [dr EXCEPT !.pc = "for", !.acted = Append(@, TRUE)]
    /\ UNCHANGED notDaily

\* Line 59: the range 1..=max_rounds is exhausted.
DailyExhausted ==
    /\ dr.pc = "for"
    /\ dr.round >= max_rounds
    /\ dr' = [dr EXCEPT !.pc = "done"]
    /\ UNCHANGED notDaily

NextDaily ==
    DailyRoundBegin \/ DailySlot \/ DailyBreak \/ DailyRetry \/ DailyExhausted

\* run() is a plain call on the foreground thread: it keeps running.
SpecDaily == InitDaily /\ [][NextDaily]_vars /\ WF_vars(NextDaily)

(***************************************************************************)
(* The scene editor: src/tool/src/main.rs.  A String is the sequence of    *)
(* its characters' code points; an f32 coordinate that holds an integer is *)
(* that integer (exact below 2^24).                                        *)
(***************************************************************************)
\* The literal pieces of build_toml's format strings, lines 130-153.
\* [[scenes]]\nid = "
S_SCENES_ID ==
    <<91, 91, 115, 99, 101, 110, 101, 115, 93, 93, 10, 105, 100, 32, 61,
    32, 34>>
\* "\nname = "
S_NAME ==
    <<34, 10, 110, 97, 109, 101, 32, 61, 32, 34>>
\* "\nlogic = "
S_LOGIC ==
    <<34, 10, 108, 111, 103, 105, 99, 32, 61, 32, 34>>
\* "\n\n
S_HEAD_END ==
    <<34, 10, 10>>
\* [scenes.anchors]\n
S_ANCHORS ==
    <<91, 115, 99, 101, 110, 101, 115, 46, 97, 110, 99, 104, 111, 114,
    115, 93, 10>>
\* text = [\n
S_TEXT_OPEN ==
    <<116, 101, 120, 116, 32, 61, 32, 91, 10>>
\*   { rect = [
S_RECT ==
    <<32, 32, 123, 32, 114, 101, 99, 116, 32, 61, 32, 91>>
\* , 
S_SEP ==
    <<44, 32>>
\* ], val = "
S_VAL ==
    <<93, 44, 32, 118, 97, 108, 32, 61, 32, 34>>
\* " },\n
S_ITEM_END ==
    <<34, 32, 125, 44, 10>>
\* ]\ncolor = [\n
S_COLOR_OPEN ==
    <<93, 10, 99, 111, 108, 111, 114, 32, 61, 32, 91, 10>>
\*   { pos = [
S_POS ==
    <<32, 32, 123, 32, 112, 111, 115, 32, 61, 32, 91>>
\* ", tol = 
S_TOL ==
    <<34, 44, 32, 116, 111, 108, 32, 61, 32>>
\*  },\n
S_TOL_END ==
    <<32, 125, 44, 10>>
\* ]\n\n# --- <U+52A8><U+4F5C><U+6B65><U+9AA4> ---\n
S_STEPS ==
    <<93, 10, 10, 35, 32, 45, 45, 45, 32, 21160, 20316, 27493, 39588, 32,
    45, 45, 45, 10>>
\* [[scenes.transitions]]\n
S_TRANSITION ==
    <<91, 91, 115, 99, 101, 110, 101, 115, 46, 116, 114, 97, 110, 115,
    105, 116, 105, 111, 110, 115, 93, 93, 10>>
\* target = "
S_TARGET ==
    <<116, 97, 114, 103, 101, 116, 32, 61, 32, 34>>
\* "\n
S_QUOTE_NL ==
    <<34, 10>>
\* coords = [
S_COORDS ==
    <<99, 111, 111, 114, 100, 115, 32, 61, 32, 91>>
\* ]\n
S_BRACKET_NL ==
    <<93, 10>>
\* post_delay = 
S_POST_DELAY ==
    <<112, 111, 115, 116, 95, 100, 101, 108, 97, 121, 32, 61, 32>>
\* \n\n
S_NL_NL ==
    <<10, 10>>
\* and
S_AND ==
    <<97, 110, 100>>
\* or
S_OR ==
    <<111, 114>>

\* Display for an integer: `{}`.
RECURSIVE FormatNat(_)
FormatNat(n) == IF n < 10 THEN <<48 + n>> ELSE FormatNat(n \div 10) \o <<48 + (n % 10)>>
FormatInt(n) == IF n < 0 THEN <<45>> \o FormatNat(-n) ELSE FormatNat(n)

\* `v as i32` for an f32 v that is k / 2: towards zero.
HalvesAsI32(k) == IF k >= 0 THEN k \div 2 ELSE -((-k) \div 2)

\* Rect::center().x as i32: (min.x + max.x) / 2, truncated.
CenterAsI32(lo, hi) == HalvesAsI32(lo + hi)

\* The drafts of one kind, in the order of self.drafts.
DraftsOf(drafts, kind) == SelectSeq(drafts, LAMBDA d : d.kind = kind)

\* Lines 135-138: one text anchor.
TextAnchorLine(d) ==
    S_RECT \o FormatInt(d.min[1]) \o S_SEP \o FormatInt(d.min[2]) \o S_SEP
           \o FormatInt(d.max[1]) \o S_SEP \o FormatInt(d.max[2])
           \o S_VAL \o d.text \o S_ITEM_END

\* Lines 143-146: one color anchor.
ColorAnchorLine(d) ==
    S_POS \o FormatInt(d.min[1]) \o S_SEP \o FormatInt(d.min[2])
          \o S_VAL \o d.color_hex \o S_TOL \o FormatNat(d.tolerance) \o S_TOL_END

\* Lines 149-154: one transition.
TransitionLines(d) ==
    S_TRANSITION
       \o S_TARGET \o d.target \o S_QUOTE_NL
       \o S_COORDS \o FormatInt(CenterAsI32(d.min[1], d.max[1])) \o S_SEP
                   \o FormatInt(CenterAsI32(d.min[2], d.max[2])) \o S_BRACKET_NL
       \o S_POST_DELAY \o FormatNat(d.post_delay) \o S_NL_NL

RECURSIVE Concat(_)
Concat(parts) == IF parts = <<>> THEN <<>> ELSE Head(parts) \o Concat(Tail(parts))

\* build_toml, lines 128-157: the text it stores in toml_content.
BuildToml(t) ==
    LET logic_str == IF t.logic = "AND" THEN S_AND ELSE S_OR
        texts == DraftsOf(t.drafts, "TextAnchor")
        colors == DraftsOf(t.drafts, "ColorAnchor")
        buttons == DraftsOf(t.drafts, "Button")
    IN  S_SCENES_ID \o t.scene_id \o S_NAME \o t.scene_name \o S_LOGIC \o logic_str
           \o S_HEAD_END
           \o S_ANCHORS
           \o S_TEXT_OPEN
           \o Concat([k \in 1..Len(texts) |-> TextAnchorLine(texts[k])])
           \o S_COLOR_OPEN
           \o Concat([k \in 1..Len(colors) |-> ColorAnchorLine(colors[k])])
           \o S_STEPS
           \o Concat([k \in 1..Len(buttons) |-> TransitionLines(buttons[k])])

(***************************************************************************)
(* toml::from_str::<TomlRoot> (line 161) on the documents build_toml can   *)
(* write: table headers, `key = value` lines, arrays of inline tables one  *)
(* item a line, comments.  Values are basic strings, integers and arrays   *)
(* of integers.  The strings drawn hold no quotation mark, so a string     *)
(* ends at the quotation mark build_toml wrote and no multi-line string    *)
(* can begin.  The types are those of TomlRoot, lines 35-46.               *)
(***************************************************************************)
K_id == <<105, 100>>    \* id
K_name == <<110, 97, 109, 101>>    \* name
K_logic == <<108, 111, 103, 105, 99>>    \* logic
K_text == <<116, 101, 120, 116>>    \* text
K_color == <<99, 111, 108, 111, 114>>    \* color
K_rect == <<114, 101, 99, 116>>    \* rect
K_val == <<118, 97, 108>>    \* val
K_pos == <<112, 111, 115>>    \* pos
K_tol == <<116, 111, 108>>    \* tol
K_target == <<116, 97, 114, 103, 101, 116>>    \* target
K_coords == <<99, 111, 111, 114, 100, 115>>    \* coords
K_post_delay == <<112, 111, 115, 116, 95, 100, 101, 108, 97, 121>>    \* post_delay
H_SCENES == <<91, 91, 115, 99, 101, 110, 101, 115, 93, 93>>    \* [[scenes]]
H_ANCHORS == <<91, 115, 99, 101, 110, 101, 115, 46, 97, 110, 99, 104, 111, 114, 115, 93>>    \* [scenes.anchors]
H_TRANSITIONS == <<91, 91, 115, 99, 101, 110, 101, 115, 46, 116, 114, 97, 110, 115, 105, 116, 105, 111, 110, 115, 93, 93>>    \* [[scenes.transitions]]

QUOTE == 34           \* '"'
BACKSLASH == 92       \* '\'
NEWLINE == 10         \* '\n'

IsWs(c) == c \in {32, 9}
IsDigit(c) == c \in 48..57
IsKeyChar(c) == c \in (48..57) \cup (65..90) \cup (97..122) \cup {45, 95}

\* The lines of a text: what lies before, between and after its line breaks.
SplitLines(text) ==
    LET breaks == SelectSeq([k \in 1..Len(text) |-> k], LAMBDA k : text[k] = NEWLINE)
        from(j) == IF j = 1 THEN 1 ELSE breaks[j - 1] + 1
        to(j) == IF j > Len(breaks) THEN Len(text) ELSE breaks[j] - 1
    IN  [j \in 1..(Len(breaks) + 1) |-> SubSeq(text, from(j), to(j))]

\* The first position from i on that holds no blank; Len(s) + 1 if none.
RECURSIVE SkipWs(_, _)
SkipWs(s, i) == IF i <= Len(s) /\ IsWs(s[i]) THEN SkipWs(s, i + 1) ELSE i

\* From i on there is nothing but blanks and, maybe, a comment.
RestIsBlank(s, i) == LET j == SkipWs(s, i) IN j > Len(s) \/ s[j] = 35

\* A parsed value: a string, an integer, an array of integers, or the
\* opening bracket of an array that goes on in the next lines.
Value(kind, str, n, ints, next) ==
    [ok |-> TRUE, kind |-> kind, str |-> str, n |-> n, ints |-> ints, next |-> next]
NoValue == [ok |-> FALSE, kind |-> None, str |-> <<>>, n |-> 0, ints |-> <<>>, next |-> 0]

\* The character an escape sequence of a basic string stands for; -1 if the
\* sequence is none (\u and \U need hex digits, which no drawn string has).
Unescape(c) ==
    CASE c = 98 -> 8          \* \b
      [] c = 116 -> 9         \* \t
      [] c = 110 -> 10        \* \n
      [] c = 102 -> 12        \* \f
      [] c = 114 -> 13        \* \r
      [] c = QUOTE -> QUOTE
      [] c = BACKSLASH -> BACKSLASH
      [] OTHER -> -1

\* A basic string whose opening quotation mark is at j - 1.
RECURSIVE ScanString(_, _, _)
ScanString(s, j, acc) ==
    IF j > Len(s) THEN NoValue
    ELSE IF s[j] = QUOTE THEN Value("str", acc, 0, <<>>, j + 1)
    ELSE IF s[j] = BACKSLASH
    THEN IF j + 1 > Len(s) \/ Unescape(s[j + 1]) = -1
         THEN NoValue
         ELSE ScanString(s, j + 2, Append(acc, Unescape(s[j + 1])))
    ELSE IF (s[j] < 32 /\ s[j] # 9) \/ s[j] = 127 THEN NoValue
    ELSE ScanString(s, j + 1, Append(acc, s[j]))

\* The end of the run of digits that starts at j.
RECURSIVE DigitsEnd(_, _)
DigitsEnd(s, j) == IF j <= Len(s) /\ IsDigit(s[j]) THEN DigitsEnd(s, j + 1) ELSE j

RECURSIVE DigitsValue(_)
DigitsValue(ds) ==
    IF ds = <<>> THEN 0 ELSE 10 * DigitsValue(SubSeq(ds, 1, Len(ds) - 1)) + (ds[Len(ds)] - 48)

\* A decimal integer at i: a sign, digits, no leading zero; nine digits at
\* most here, more than any number build_toml is given to write.
ParseInt(s, i) ==
    LET signed == i <= Len(s) /\ s[i] \in {43, 45}
        from == IF signed THEN i + 1 ELSE i
        to == DigitsEnd(s, from)
        ds == SubSeq(s, from, to - 1)
    IN  IF to = from \/ to - from > 9 \/ (to - from > 1 /\ s[from] = 48)
        THEN NoValue
        ELSE Value("int", <<>>, IF signed /\ s[i] = 45 THEN -DigitsValue(ds)
                                ELSE DigitsValue(ds), <<>>, to)

\* The items of an array of integers after its opening bracket.
RECURSIVE ScanInts(_, _, _)
ScanInts(s, i, acc) ==
    LET j == SkipWs(s, i)
    IN  IF j > Len(s) THEN NoValue
        ELSE IF s[j] = 93 THEN Value("ints", <<>>, 0, acc, j + 1)
        ELSE LET After(v, k) ==
                     IF ~v.ok \/ k > Len(s) THEN NoValue
                     ELSE IF s[k] = 44 THEN ScanInts(s, k + 1, Append(acc, v.n))
                     ELSE IF s[k] = 93
                     THEN Value("ints", <<>>, 0, Append(acc, v.n), k + 1)
                     ELSE NoValue
                 Item(v) == After(v, IF v.ok THEN SkipWs(s, v.next) ELSE 0)
             IN  Item(ParseInt(s, j))

\* The value at i.
ParseValue(s, i) ==
    IF i > Len(s) THEN NoValue
    ELSE IF s[i] = QUOTE THEN ScanString(s, i + 1, <<>>)
    ELSE IF s[i] = 91
    THEN IF SkipWs(s, i + 1) > Len(s)
         THEN Value("open", <<>>, 0, <<>>, i + 1)
         ELSE ScanInts(s, i + 1, <<>>)
    ELSE ParseInt(s, i)

\* `key = value` at i: the key, the value.
KeyEnd(s, i) == CHOOSE j \in i..(Len(s) + 1) :
                   /\ \A h \in i..(j - 1) : IsKeyChar(s[h])
                   /\ j > Len(s) \/ ~IsKeyChar(s[j])
ParseKeyValue(s, i) ==
    LET Pair(ke, v) == [ok |-> v.ok, key |-> SubSeq(s, i, ke - 1), v |-> v]
        From(ke, eq) ==
            Pair(ke, IF ke > i /\ eq <= Len(s) /\ s[eq] = 61
                     THEN ParseValue(s, SkipWs(s, eq + 1)) ELSE NoValue)
        Key(ke) == From(ke, SkipWs(s, ke))
    IN  Key(KeyEnd(s, i))

\* The pairs of an inline table after its opening brace.
RECURSIVE ScanTable(_, _, _)
ScanTable(s, i, acc) ==
    LET j == SkipWs(s, i)
    IN  IF j > Len(s) THEN [ok |-> FALSE, pairs |-> <<>>, next |-> 0]
        ELSE IF s[j] = 125 /\ acc = <<>> THEN [ok |-> TRUE, pairs |-> acc, next |-> j + 1]
        ELSE LET After(kv, k) ==
                     IF ~kv.ok \/ kv.v.kind = "open" \/ k > Len(s)
                        \/ \E h \in 1..Len(acc) : acc[h].key = kv.key
                     THEN [ok |-> FALSE, pairs |-> <<>>, next |-> 0]
                     ELSE IF s[k] = 44 THEN ScanTable(s, k + 1, Append(acc, kv))
                     ELSE IF s[k] = 125
                     THEN [ok |-> TRUE, pairs |-> Append(acc, kv), next |-> k + 1]
                     ELSE [ok |-> FALSE, pairs |-> <<>>, next |-> 0]
                 Pair(kv) == After(kv, IF kv.ok THEN SkipWs(s, kv.v.next) ELSE 0)
             IN  Pair(ParseKeyValue(s, j))

\* The values a table gives a key: none or one.
Lookup(pairs, key) ==
    LET hits == SelectSeq(pairs, LAMBDA kv : kv.key = key)
    IN  [k \in 1..Len(hits) |-> hits[k].v]

InI32(n) == n >= -2147483647 - 1 /\ n <= 2147483647
InU32(n) == n >= 0               \* nine digits are below 2^32
InU8(n) == n \in 0..255

IsStr(vs) == Len(vs) = 1 /\ vs[1].kind = "str"
IsInt(vs) == Len(vs) = 1 /\ vs[1].kind = "int"
IsInts(vs, len) ==
    /\ Len(vs) = 1
    /\ vs[1].kind = "ints"
    /\ Len(vs[1].ints) = len
    /\ \A k \in 1..len : InI32(vs[1].ints[k])

\* TomlTextAnchor { rect: [i32; 4], val: String }, line 42.
TomlTextAnchor(pairs) ==
    LET rect == Lookup(pairs, K_rect)
        val == Lookup(pairs, K_val)
    IN  IF IsInts(rect, 4) /\ IsStr(val)
        THEN <<[rect |-> rect[1].ints, val |-> val[1].str]>> ELSE <<>>

\* TomlColorAnchor { pos: [i32; 2], val: String, tol: u8 }, line 44.
TomlColorAnchor(pairs) ==
    LET pos == Lookup(pairs, K_pos)
        val == Lookup(pairs, K_val)
        tol == Lookup(pairs, K_tol)
    IN  IF IsInts(pos, 2) /\ IsStr(val) /\ IsInt(tol) /\ InU8(tol[1].n)
        THEN <<[pos |-> pos[1].ints, val |-> val[1].str, tol |-> tol[1].n]>> ELSE <<>>

\* TomlTransition { target: String, coords: [i32; 2], post_delay: u32 }, line 46.
TomlTransition(pairs) ==
    LET target == Lookup(pairs, K_target)
        coords == Lookup(pairs, K_coords)
        post_delay == Lookup(pairs, K_post_delay)
    IN  IF IsStr(target) /\ IsInts(coords, 2) /\ IsInt(post_delay) /\ InU32(post_delay[1].n)
        THEN <<[target |-> target[1].str, coords |-> coords[1].ints,
                post_delay |-> post_delay[1].n]>>
        ELSE <<>>

\* A [[scenes]] table as the lines fill it: the pairs of the table itself,
\* the items of anchors.text and anchors.color (<<>> while the key is not
\* there, else one sequence), and the pairs of each [[scenes.transitions]].
NewScene == [pairs |-> <<>>, text |-> <<>>, color |-> <<>>, transitions |-> <<>>]

\* The state of the document parser before the first line.
DocStart == [ok |-> TRUE, ctx |-> "root", arr |-> None, scenes |-> <<>>]
DocFail == [ok |-> FALSE, ctx |-> "root", arr |-> None, scenes |-> <<>>]

\* One line of the document.
ParseLine(doc, line) ==
    LET i == SkipWs(line, 1)
        n == Len(doc.scenes)
        rest == SubSeq(line, i, Len(line))
        IsHeader(h) == /\ Len(rest) >= Len(h)
                       /\ SubSeq(rest, 1, Len(h)) = h
                       /\ RestIsBlank(rest, Len(h) + 1)
    IN  IF RestIsBlank(line, 1) THEN doc
        ELSE IF doc.arr # None
        THEN IF line[i] = 93 /\ RestIsBlank(line, i + 1)
             THEN [doc EXCEPT !.arr = None]
             ELSE IF line[i] # 123 THEN DocFail
             ELSE LET End(c) == IF c <= Len(line) /\ line[c] = 44 THEN c + 1 ELSE c
                      Add(t, end, item) ==
                          IF ~t.ok \/ ~RestIsBlank(line, end) \/ item = <<>>
                          THEN DocFail
                          ELSE IF doc.arr = "text"
                          THEN [doc EXCEPT !.scenes[n].text[1] = Append(@, item[1])]
                          ELSE [doc EXCEPT !.scenes[n].color[1] = Append(@, item[1])]
                      Item(t) ==
                          Add(t, IF t.ok THEN End(SkipWs(line, t.next)) ELSE 0,
                              IF ~t.ok THEN <<>>
                              ELSE IF doc.arr = "text" THEN TomlTextAnchor(t.pairs)
                              ELSE TomlColorAnchor(t.pairs))
                  IN  Item(ScanTable(line, i + 1, <<>>))
        ELSE IF IsHeader(H_SCENES)
        THEN [doc EXCEPT !.ctx = "scene", !.scenes = Append(@, NewScene)]
        ELSE IF IsHeader(H_ANCHORS)
        THEN IF n = 0 THEN DocFail ELSE [doc EXCEPT !.ctx = "anchors"]
        ELSE IF IsHeader(H_TRANSITIONS)
        THEN IF n = 0 THEN DocFail
             ELSE [doc EXCEPT !.ctx = "transition",
                              !.scenes[n].transitions = Append(@, <<>>)]
        ELSE IF line[i] = 91 THEN DocFail
        ELSE LET KeyValue(kv) ==
                     IF ~kv.ok THEN DocFail
                     ELSE IF kv.v.kind = "open"
                     THEN IF doc.ctx = "anchors" /\ kv.key = K_text /\ doc.scenes[n].text = <<>>
                          THEN [doc EXCEPT !.arr = "text", !.scenes[n].text = <<(<<>>)>>]
                          ELSE IF doc.ctx = "anchors" /\ kv.key = K_color
                                  /\ doc.scenes[n].color = <<>>
                          THEN [doc EXCEPT !.arr = "color", !.scenes[n].color = <<(<<>>)>>]
                          ELSE DocFail
                     ELSE IF ~RestIsBlank(line, kv.v.next) THEN DocFail
                     ELSE IF doc.ctx = "scene"
                     THEN IF \E h \in 1..Len(doc.scenes[n].pairs) :
                                doc.scenes[n].pairs[h].key = kv.key
                          THEN DocFail
                          ELSE [doc EXCEPT !.scenes[n].pairs = Append(@, kv)]
                     ELSE IF doc.ctx = "transition"
                     THEN LET m == Len(doc.scenes[n].transitions)
                          IN  IF \E h \in 1..Len(doc.scenes[n].transitions[m]) :
                                    doc.scenes[n].transitions[m][h].key = kv.key
                              THEN DocFail
                              ELSE [doc EXCEPT !.scenes[n].transitions[m] = Append(@, kv)]
                     ELSE doc
             IN  KeyValue(ParseKeyValue(line, i))

RECURSIVE ParseLines(_, _)
ParseLines(doc, lines) ==
    IF lines = <<>> \/ ~doc.ok THEN doc
    ELSE ParseLines(ParseLine(doc, Head(lines)), Tail(lines))

\* TomlScene { id, name, logic: String, anchors, transitions }, line 38.
TomlScene(sc0) ==
    LET id == Lookup(sc0.pairs, K_id)
        name == Lookup(sc0.pairs, K_name)
        logic == Lookup(sc0.pairs, K_logic)
        ts == [k \in 1..Len(sc0.transitions) |-> TomlTransition(sc0.transitions[k])]
    IN  IF IsStr(id) /\ IsStr(name) /\ IsStr(logic)
           /\ \A k \in 1..Len(ts) : ts[k] # <<>>
        THEN <<[id |-> id[1].str, name |-> name[1].str, logic |-> logic[1].str,
                text |-> sc0.text, color |-> sc0.color,
                transitions |-> [k \in 1..Len(ts) |-> ts[k][1]]]>>
        ELSE <<>>

\* toml::from_str::<TomlRoot>(text): Ok(root) as <<root>>, Err(e) as <<>>.
FromStr(text) ==
    LET Root(doc, scenes) ==
            IF doc.ok /\ doc.arr = None /\ scenes # <<>>
               /\ \A k \in 1..Len(scenes) : scenes[k] # <<>>
            THEN <<[scenes |-> [k \in 1..Len(scenes) |-> scenes[k][1]]]>>
            ELSE <<>>
        Typed(doc) == Root(doc, [k \in 1..Len(doc.scenes) |-> TomlScene(doc.scenes[k])])
    IN  Typed(ParseLines(DocStart, SplitLines(text)))

(***************************************************************************)
(* import_toml, lines 159-194.                                             *)
(***************************************************************************)
\* UIElementDraft, lines 28-32, with the fields of every ElementKind.
Draft(kind, min, max) ==
    [kind |-> kind, min |-> min, max |-> max, text |-> <<>>, color_hex |-> <<>>,
     tolerance |-> 0, target |-> <<>>, post_delay |-> 0]

\* str::to_lowercase on the characters a logic string can hold here.
ToLower(str) == [k \in 1..Len(str) |-> IF str[k] \in 65..90 THEN str[k] + 32 ELSE str[k]]

\* Lines 170-171: Rect::from_min_max over the four numbers of rect.
DraftOfText(a) ==
    [Draft("TextAnchor", <<a.rect[1], a.rect[2]>>, <<a.rect[3], a.rect[4]>>)
        EXCEPT !.text = a.val]

\* Lines 176-178: the rect from pos to pos + Vec2::splat(1.0).
DraftOfColor(c) ==
    [Draft("ColorAnchor", <<c.pos[1], c.pos[2]>>, <<c.pos[1] + 1, c.pos[2] + 1>>)
        EXCEPT !.color_hex = c.val, !.tolerance = c.tol]

\* Lines 184-185: Rect::from_center_size(coords, Vec2::splat(20.0)).
DraftOfTransition(tr) ==
    [Draft("Button", <<tr.coords[1] - 10, tr.coords[2] - 10>>,
                     <<tr.coords[1] + 10, tr.coords[2] + 10>>)
        EXCEPT !.target = tr.target, !.post_delay = tr.post_delay]

\* The status messages, in ASCII for the source's texts.
MSG_READY == "ocr ready"            \* line 78
MSG_BUILT == "toml built"           \* line 156
MSG_EMPTY == "import failed: empty" \* line 160
MSG_IMPORTED == "imported"          \* line 188
MSG_PARSE == "parse failed"         \* line 192

\* import_toml: the editor after it.
ImportToml(t) ==
    IF StripWhitespace(t.toml_content) = <<>>
    THEN [t EXCEPT !.status_msg = MSG_EMPTY]
    ELSE LET Load(scene, texts, colors) ==
                 [t EXCEPT
                    !.scene_id = scene.id,
                    !.scene_name = scene.name,
                    !.logic = IF ToLower(scene.logic) = S_OR THEN "OR" ELSE "AND",
                    !.drafts =
                       [k \in 1..Len(texts) |-> DraftOfText(texts[k])]
                       \o [k \in 1..Len(colors) |-> DraftOfColor(colors[k])]
                       \o [k \in 1..Len(scene.transitions) |->
                              DraftOfTransition(scene.transitions[k])],
                    !.status_msg = MSG_IMPORTED]
             First(scene) ==
                 Load(scene, IF scene.text = <<>> THEN <<>> ELSE scene.text[1],
                             IF scene.color = <<>> THEN <<>> ELSE scene.color[1])
             Match(root) ==
                 IF root = <<>>
                 THEN [t EXCEPT !.status_msg = MSG_PARSE]
                 ELSE IF root[1].scenes = <<>> THEN t
                 ELSE First(root[1].scenes[1])
         IN  Match(FromStr(t.toml_content))

(***************************************************************************)
(* SpecTool: the operator fills in a scene and its drafts, then presses    *)
(* the two buttons (lines 174-175 of the panel) in any order.              *)
(***************************************************************************)
\* What the operator types: plain text; text with the two characters `\t`;
\* text with two backslashes; text that ends in a backslash.
PLAIN == <<108, 49>>          \* l1
WITH_BACKSLASH_T == <<97, 92, 116, 98>>  \* a\tb
TWO_BACKSLASHES == <<97, 92, 92, 98>>   \* a\\b
ENDS_IN_BACKSLASH == <<97, 92>> \* a\
NEXT == <<110, 101, 120, 116>>            \* next, line 143
HEX == <<35, 70, 70, 48, 48, 65, 65>>              \* #FF00AA, line 123

SceneIdsTyped == {PLAIN, TWO_BACKSLASHES}
SceneNamesTyped == {PLAIN}

\* The drafts drawn: integer rectangles, a color point, buttons whose
\* centre is whole or half.
DraftChoices ==
    {[Draft("TextAnchor", <<0, 0>>, <<5, 7>>) EXCEPT !.text = txt] :
        txt \in {PLAIN, WITH_BACKSLASH_T, ENDS_IN_BACKSLASH}}
    \cup {[Draft("ColorAnchor", <<3, 4>>, <<4, 5>>)
              EXCEPT !.color_hex = HEX, !.tolerance = 15]}
    \cup {[Draft("Button", <<0, 0>>, <<5, 8>>) EXCEPT !.target = NEXT, !.post_delay = 500],
          [Draft("Button", <<-5, -25>>, <<0, 0>>) EXCEPT !.target = PLAIN]}

InitTool ==
    /\ MainIdle
    /\ mv = MoveIdle
    /\ ab = AbsIdle
    /\ nv = NavIdle
    /\ st = StartIdle
    /\ sd = SoftIdle
    /\ dc = CallIdle
    /\ sc = SceneIdle
    /\ ps = SlotIdle
    /\ dr = DailyIdle
    /\ \E scene_id \in SceneIdsTyped, scene_name \in SceneNamesTyped,
          logic \in {"AND", "OR"},
          drafts \in UNION {[1..n -> DraftChoices] : n \in 0..MaxDrafts} :
          tl = [ToolIdle EXCEPT !.pc = "ready", !.scene_id = scene_id,
                                !.scene_name = scene_name, !.logic = logic,
                                !.drafts = drafts, !.status_msg = MSG_READY]

\* build_toml, lines 128-157.
ToolBuild ==
    /\ tl.pc = "ready"
    /\ Len(tl.ops) < MaxToolOps
    /\ LET toml == BuildToml(tl)
       IN  tl' = [tl EXCEPT !.toml_content = toml,
                            !.status_msg = MSG_BUILT,
                            !.ops = Append(@, [op |-> "build_toml", toml |-> toml,
                                               status_msg |-> MSG_BUILT])]
    /\ UNCHANGED notTool

\* import_toml, lines 159-194.
ToolImport ==
    /\ tl.pc = "ready"
    /\ Len(tl.ops) < MaxToolOps
    /\ LET after == ImportToml(tl)
       IN  tl' = [after EXCEPT
                     !.ops = Append(@, [op |-> "import_toml", toml |-> tl.toml_content,
                                        status_msg |-> after.status_msg])]
    /\ UNCHANGED notTool

NextTool == ToolBuild \/ ToolImport

SpecTool == InitTool /\ [][NextTool]_vars

(***************************************************************************)
(* Reading a frame back, as the device does.                               *)
(***************************************************************************)
FrameDx(f) == I16Decode(f[5], f[6])
FrameDy(f) == I16Decode(f[7], f[8])

RECURSIVE SumDx(_)
SumDx(fs) == IF fs = <<>> THEN 0 ELSE FrameDx(fs[1]) + SumDx(Tail(fs))
RECURSIVE SumDy(_)
SumDy(fs) == IF fs = <<>> THEN 0 ELSE FrameDy(fs[1]) + SumDy(Tail(fs))

(***************************************************************************)
(* C1: every frame a mouse_move(dx, dy, wheel) call emits carries a        *)
(* per-axis step within [-127, 127], and when the call returns the steps   *)
(* of its frames, summed in emission order, equal (dx, dy) exactly.        *)
(***************************************************************************)
C1_FragmentsInRangeAndExact ==
    /\ \A i \in 1..Len(mv.out) :
          /\ mv.out[i][2] = MouseRel
          /\ FrameDx(mv.out[i]) \in -127..127
          /\ FrameDy(mv.out[i]) \in -127..127
    /\ mv.pc \in {"loop", "done"} =>
          /\ SumDx(mv.out) + mv.cur_dx = mv.dx
          /\ SumDy(mv.out) + mv.cur_dy = mv.dy
    /\ mv.pc = "done" =>
          /\ SumDx(mv.out) = mv.dx
          /\ SumDy(mv.out) = mv.dy

\* A returned call whose dx needed three frames and whose dy went the other way.
C1_Witness ==
    /\ mv.pc = "done"
    /\ mv.dx > 2 * 127
    /\ mv.dy < -127
    /\ Len(mv.out) >= 3

FrameTx(f) == f[5] + 256 * f[6]
FrameTy(f) == f[7] + 256 * f[8]

(***************************************************************************)
(* C2: for every screen size and every point within it, the tx and ty of   *)
(* the frame mouse_abs emits lie within [10, 32757].                       *)
(***************************************************************************)
C2_AbsWithinClamp ==
    (ab.pc = "done" /\ ab.x <= ab.screen_w /\ ab.y <= ab.screen_h) =>
        /\ Len(ab.out) = 1
        /\ ab.out[1][2] = MouseAbs
        /\ FrameTx(ab.out[1]) \in 10..32757
        /\ FrameTy(ab.out[1]) \in 10..32757

\* Both boundaries at once: x = 0 clamps up to 10, y = screen_h down to 32757.
C2_Witness ==
    /\ ab.pc = "done"
    /\ ab.screen_w = 1920 /\ ab.x = 0
    /\ ab.screen_h = 1080 /\ ab.y = ab.screen_h
    /\ FrameTx(ab.out[1]) = 10
    /\ FrameTy(ab.out[1]) = 32757


(***************************************************************************)
(* C4: navigate(target) always terminates: every round consumes one sample *)
(* and counts against the round cap, a call that has not returned can      *)
(* always take a step, and a call that never saw a scene match returns     *)
(* Failed, having used up its round cap.                                   *)
(***************************************************************************)
C4_NavTerminates ==
    /\ nv.round \in 0..MaxNavRounds
    /\ Len(nv.seen) = nv.round
    /\ nv.pc = "run" => ENABLED NextNav
    /\ nv.pc = "done" => nv.result # NoResult
    /\ (nv.pc = "done" /\ \A i \in 1..Len(nv.seen) : nv.seen[i] = None) =>
          /\ nv.result = Failed
          /\ nv.round = MaxNavRounds
          /\ nv.clicks = <<>>

\* A returned call whose every round saw no scene.
C4_Witness ==
    /\ nv.pc = "done"
    /\ nv.result = Failed
    /\ Len(nv.seen) = MaxNavRounds
    /\ \A i \in 1..Len(nv.seen) : nv.seen[i] = None

BranchDone == fg.pc = "exec" /\ fg.q = <<>> /\ io["fg"].pend = <<>>

\* C3: on Failed the loop issues the Escape gesture on the device, key_down
\* (0x29, 0) followed at least 100 ms later by key_up and no key-down left
\* without its key-up, waits the 3 s cooldown and calls navigate again with
\* the same target; Failed never ends the loop.
C3_FailedResets ==
    /\ fg.pc \in {"navigate", "nav", "match", "module", "exec"}
    /\ fg.pc \in {"nav", "match", "module", "exec"} => fg.arg = args_target
    /\ (fg.pc = "exec" /\ fg.result = Failed) =>
          \A i \in 1..Len(fg.calls) :
             fg.calls[i].f = "key_down" =>
                \/ i = Len(fg.calls) /\ fg.q # <<>>
                \/ i < Len(fg.calls) /\ fg.calls[i + 1].f = "key_up"
                                     /\ fg.calls[i + 1].gap >= 100
    /\ (BranchDone /\ fg.result = Failed) =>
          /\ Len(fg.calls) >= 2
          /\ fg.calls[Len(fg.calls) - 1].f = "key_down"
          /\ fg.calls[Len(fg.calls) - 1].a = <<41, 0>>
          /\ fg.calls[Len(fg.calls)].f = "key_up"
          /\ fg.calls[Len(fg.calls)].gap >= 100
          /\ slept["fg"] >= 3000
          /\ lk.human # "fg" /\ lk.dev # "fg"
          /\ ENABLED FgLoop

C3_Witness ==
    /\ BranchDone
    /\ fg.result = Failed
    /\ Len(fg.calls) = 4
    /\ io["hb"].n >= 1

NBlocks == (Len(link) + 10) \div 11
Block(j) == SubSeq(link, 11 * (j - 1) + 1, Min(11 * j, Len(link)))
BlockBytes(j) == [i \in 1..Len(Block(j)) |-> Block(j)[i].v]
BlocksOf(t) == {j \in 1..NBlocks : Block(j)[1].by = t}

\* C8: the bytes on the link are a concatenation of whole 11-byte frames,
\* each thread's frames are on the link in the order the thread issued them,
\* and a heartbeat frame between a gesture's key-down and key-up leaves both
\* frames whole and in order.
C8_WholeFramesInOrder ==
    /\ \A j \in 1..NBlocks :
          /\ \A i \in 1..Len(Block(j)) :
                /\ Block(j)[i].by = Block(j)[1].by
                /\ Block(j)[i].n = Block(j)[1].n
                /\ Block(j)[i].k = i
          /\ BlockBytes(j)[1] = FRAME_HEAD
          /\ Len(Block(j)) = 11 => BlockBytes(j)[11] = FRAME_TAIL
          /\ Len(Block(j)) < 11 => j = NBlocks
    /\ \A t \in Threads : \A j \in BlocksOf(t) :
          Block(j)[1].n = Cardinality({h \in BlocksOf(t) : h < j}) + 1
    /\ \A j \in BlocksOf("fg") :
          (Len(Block(j)) = 11 /\ BlockBytes(j) = KeyDownFrame(41, 0)) =>
             \A h \in BlocksOf("fg") :
                (Block(h)[1].n = Block(j)[1].n + 1 /\ Len(Block(h)) = 11) =>
                   BlockBytes(h) = KeyUpFrame

C8_Witness ==
    \E j \in 1..NBlocks :
       /\ j + 2 <= NBlocks
       /\ Len(Block(j + 2)) = 11
       /\ Block(j)[1].by = "fg" /\ BlockBytes(j) = KeyDownFrame(41, 0)
       /\ Block(j + 1)[1].by = "hb" /\ BlockBytes(j + 1) = HeartbeatFrame
       /\ Block(j + 2)[1].by = "fg" /\ BlockBytes(j + 2) = KeyUpFrame

\* C9: the heartbeat thread never terminates; under fair scheduling, with
\* the foreground freeing the device mutex after each driver call, a
\* heartbeat frame (system event, subcmd 0xFF) is written to the link again
\* and again, and a 1 s sleep lies between consecutive heartbeat attempts.
C9_HeartbeatForever ==
    /\ [](hb.pc \in {"lock", "beat", "sleep"})
    /\ []<>(/\ io["hb"].wr = 11
            /\ Head(io["hb"].pend)[2] = System
            /\ Head(io["hb"].pend)[3] = Heartbeat)
    /\ []((hb.pc = "lock" /\ hb.started) => slept["hb"] >= 1000)

C9_Witness ==
    /\ hb.pc = "beat"
    /\ io["hb"].sent = 1
    /\ io["hb"].pend = <<>>
    /\ lk.dev = "hb"
    /\ fg.q # <<>>
    /\ Head(fg.q).op = "lock_dev"

\* C10: on Handover(scene_id, handler) the loop runs exactly one task module
\* before the next navigate: the daily module iff handler is "daily",
\* otherwise the tower-defense module with the map and strategy files named
\* after scene_id; after the module returns it waits 5 s and navigates again.
C10_HandoverDispatch ==
    /\ (fg.pc \in {"module", "exec"} /\ fg.result.kind = "Handover") =>
          /\ Len(fg.ran) = 1
          /\ fg.ran[1].app = "daily" <=> fg.result.handler = "daily"
          /\ fg.ran[1].app # "daily" =>
                /\ fg.ran[1].app = "td"
                /\ fg.ran[1].map_file = fg.result.scene \o "<ditu>.json"
                /\ fg.ran[1].strategy_file = fg.result.scene \o "<celue>.json"
    /\ (fg.pc = "exec" /\ fg.result.kind # "Handover") => fg.ran = <<>>
    /\ fg.pc \in {"nav", "match"} => fg.ran = <<>>
    /\ (BranchDone /\ fg.result.kind = "Handover") =>
          /\ slept["fg"] >= 5000
          /\ ENABLED FgLoop

C10_Witness ==
    /\ BranchDone
    /\ fg.result = Handover("T", "boss")
    /\ fg.ran[1].app = "td"
    /\ fg.ran[1].map_file = "T<ditu>.json"
    /\ fg.ops = 1

(***************************************************************************)
(* Startup, test mode and the loop.                                        *)
(***************************************************************************)
\* C11: without a test selector the process loops forever, every navigate
\* outcome being followed by a cooldown and another navigate call with the
\* same target; with a selector (input, screen, ocr, scroll or an unknown
\* value) it runs at most that one test and exits without calling navigate.
C11_LoopsOrRunsOneTest ==
    /\ [](st.test = None =>
             /\ st.pc \notin {"test", "return", "exited"}
             /\ st.ran = <<>>)
    /\ []((st.pc = "match") => (st.arg = st.target /\ st.test = None))
    /\ []((st.pc = "loop" /\ st.navigated) =>
             (st.cool >= 3000 /\ ENABLED StNavigate))
    /\ []<>(st.test # None \/ st.pc = "match")
    /\ [](st.test # None =>
             /\ ~st.navigated
             /\ st.pc \notin {"loop", "match"}
             /\ Len(st.ran) <= 1
             /\ st.ran # <<>> =>
                   /\ st.test \in {"input", "screen", "ocr", "scroll"}
                   /\ st.ran[1] = "run_" \o st.test \o "_test")
    /\ <>[](st.test = None \/ st.pc = "exited")

C11_Witness ==
    /\ st.pc = "loop"
    /\ st.navigated
    /\ st.result = Success
    /\ st.cool = 5000
    /\ st.arg = "C"

\* The port argument is the sentinel "SOFT" in some mix of cases.
IsSoftSentinel(port) ==
    /\ Len(port) = 4
    /\ port[1] \in {83, 115}
    /\ port[2] \in {79, 111}
    /\ port[3] \in {70, 102}
    /\ port[4] \in {84, 116}

SetMax(S) == CHOOSE x \in S : \A y \in S : y <= x
EventsOf(n) == SelectSeq(sd.log, LAMBDA e : e.call = n)
KeyUps == {n \in 1..Len(sd.calls) : sd.calls[n].f = "key_up"}

\* The key pressed last before call n and not yet followed by a key_up: what
\* the most recent key_down recorded, as a one-element sequence, or <<>>.
HeldBefore(n) ==
    LET since == IF \E u \in KeyUps : u < n
                 THEN SetMax({u \in KeyUps : u < n}) ELSE 0
        presses == {i \in 1..Len(sd.log) :
                       /\ sd.log[i].dir = "Press"
                       /\ sd.log[i].line = 245
                       /\ sd.log[i].call > since
                       /\ sd.log[i].call < n}
    IN  IF presses = {} THEN <<>> ELSE <<sd.log[SetMax(presses)].key>>

\* C13: key_up releases exactly the key the most recent key_down recorded and
\* clears the record (a second key_up releases no key), and it releases
\* Shift on every key_up, whether or not the key_down had pressed Shift.
C13_KeyUpReleasesLastKey ==
    \A n \in KeyUps :
       LET evs == EventsOf(n)
           held == HeldBefore(n)
       IN  /\ Len(evs) = Len(held) + 1
           /\ \A i \in 1..Len(evs) : evs[i].dir = "Release"
           /\ held # <<>> => evs[1].key = held[1]
           /\ evs[Len(evs)].key = Special("Shift")
           /\ evs[Len(evs)].line = 255
           /\ n = Len(sd.calls) => sd.last_key = NoKey

C13_Witness ==
    /\ Len(sd.calls) = 3
    /\ sd.calls[1] = [f |-> "key_down", keycode |-> 4, modifier |-> 0]
    /\ sd.calls[2].f = "key_up"
    /\ sd.calls[3].f = "key_up"
    /\ Len(sd.log) = 4
    /\ sd.log[2].key = Unicode(97)
    /\ sd.log[4].key = Special("Shift")

(***************************************************************************)
(* One HardwareDriver call, frame by frame.                                *)
(***************************************************************************)
Payload(frame) == SubSeq(frame, 3, 8)
TriedFrames == [i \in 1..Len(dc.tried) |-> dc.tried[i].frame]

\* C14: a failed write or flush is never reported and never aborts:
\* send_raw still sleeps its settle time and returns, the remaining frames
\* of a multi-frame mouse_move are still attempted, and the call returns
\* normally.
C14_LinkFaultsSwallowed ==
    /\ dc.pc \in {"idle", "call", "write", "flush", "settle", "return", "done"}
    /\ dc.ret \in {None, "unit"}
    /\ \A i \in 1..Len(dc.tried) : dc.tried[i].settle = 4
    /\ dc.pc = "settle" => ENABLED CallSettle
    /\ (dc.pc \in {"return", "done"}) =>
          /\ dc.pend = <<>>
          /\ TriedFrames = DriverFrames(dc.f, dc.a)
    /\ (dc.pc = "done" /\ dc.f = "mouse_move") =>
          /\ SumDx(IF dc.a[3] = 0 THEN TriedFrames ELSE Tail(TriedFrames)) = dc.a[1]
          /\ SumDy(IF dc.a[3] = 0 THEN TriedFrames ELSE Tail(TriedFrames)) = dc.a[2]
    /\ dc.pc = "done" => dc.ret = "unit"

C14_Witness ==
    /\ dc.pc = "done"
    /\ dc.f = "mouse_move"
    /\ dc.a[1] = 300
    /\ Len(dc.tried) = 3
    /\ dc.tried[1].wrote = "err"
    /\ dc.tried[2].flushed = "err"
    /\ dc.tried[3].wrote = "ok"

\* C15: every frame the HardwareDriver writes is 11 bytes: 0xAA, the event
\* type in {1, 2, 3, 4}, six payload bytes, the delay as u16 little-endian,
\* which is 0 in every frame, and 0x55.
C15_FrameLayout ==
    \A i \in 1..Len(dc.tried) :
       LET frame == dc.tried[i].frame
       IN  /\ Len(frame) = 11
           /\ \A k \in 1..11 : frame[k] \in 0..255
           /\ frame[1] = 170
           /\ frame[2] \in {1, 2, 3, 4}
           /\ Len(Payload(frame)) = 6
           /\ frame[9] + 256 * frame[10] = 0
           /\ frame[11] = 85

C15_Witness ==
    /\ dc.pc = "done"
    /\ dc.f = "mouse_move"
    /\ dc.a = <<-300, -130, -128>>
    /\ Len(dc.tried) = 4
    /\ \A i \in 1..4 : dc.tried[i].wrote = "ok"

\* C16 as claimed: no call returns without writing at least one frame.
C16_EveryCallWrites == dc.pc = "done" => Len(dc.tried) >= 1

\* C16, amended: every call is encoded as one or more frames, except
\* mouse_move(0, 0, 0), which writes no frame at all.
C16_EveryCallButNullMoveWrites ==
    dc.pc = "done" =>
       LET null_move == /\ dc.f = "mouse_move"
                        /\ dc.a[1] = 0 /\ dc.a[2] = 0 /\ dc.a[3] = 0
       IN  /\ null_move => Len(dc.tried) = 0
           /\ ~null_move => Len(dc.tried) >= 1

C16_Witness ==
    /\ dc.pc = "done"
    /\ dc.f = "mouse_move"
    /\ dc.a = <<0, 5, 0>>
    /\ Len(dc.tried) = 1

\* C19: key_down(keycode, modifier) writes one keyboard frame with payload
\* [keycode, 0, modifier, 0, 0, 0]; key_up writes one keyboard frame with
\* payload [0, 0x80, 0, 0, 0, 0].
C19_KeyboardFrames ==
    /\ (dc.pc = "done" /\ dc.f = "key_down") =>
          /\ Len(dc.tried) = 1
          /\ dc.tried[1].frame[2] = 1
          /\ Payload(dc.tried[1].frame) = <<dc.a[1], 0, dc.a[2], 0, 0, 0>>
    /\ (dc.pc = "done" /\ dc.f = "key_up") =>
          /\ Len(dc.tried) = 1
          /\ dc.tried[1].frame[2] = 1
          /\ Payload(dc.tried[1].frame) = <<0, 128, 0, 0, 0, 0>>

C19_Witness ==
    /\ dc.pc = "done"
    /\ dc.f = "key_down"
    /\ dc.a = <<41, 2>>
    /\ dc.tried[1].wrote = "ok"

\* C20: mouse_down(left, right) writes one mouse-relative frame with payload
\* [mask, 0, 0, 0, 0, 0], bit 0 of mask set iff left, bit 1 iff right, no
\* other bit; mouse_up writes one mouse-relative frame, payload all zero.
C20_ButtonFrames ==
    /\ (dc.pc = "done" /\ dc.f = "mouse_down") =>
          /\ Len(dc.tried) = 1
          /\ dc.tried[1].frame[2] = 2
          /\ LET mask == Payload(dc.tried[1].frame)[1]
             IN  /\ mask \in 0..3
                 /\ (mask % 2 = 1) <=> dc.a[1]
                 /\ ((mask \div 2) % 2 = 1) <=> dc.a[2]
          /\ Tail(Payload(dc.tried[1].frame)) = <<0, 0, 0, 0, 0>>
    /\ (dc.pc = "done" /\ dc.f = "mouse_up") =>
          /\ Len(dc.tried) = 1
          /\ dc.tried[1].frame[2] = 2
          /\ Payload(dc.tried[1].frame) = <<0, 0, 0, 0, 0, 0>>

C20_Witness ==
    /\ dc.pc = "done"
    /\ dc.f = "mouse_down"
    /\ dc.a = <<FALSE, TRUE>>
    /\ dc.tried[1].frame[3] = 2

\* C17: on the link every frame write is followed by the 4 ms settle sleep
\* before any other frame is written, be it by the same call, a later call
\* or the other thread: no two frames go out back to back.
C17_SettleAfterEveryFrame ==
    [][/\ \A t \in Threads :
             (io[t].wr = 11 /\ io'[t] # io[t]) =>
                /\ io'[t].wr = 0
                /\ io'[t].sent = io[t].sent + 1
                /\ slept'[t] = slept[t] + 4
       /\ link' # link =>
             /\ \A t \in Threads : io[t].wr # 11
             /\ Last(link').k = 1 => \A t \in Threads : io[t].wr = 0
             /\ Last(link').k > 1 =>
                   \A t \in Threads : t # Last(link').by => io[t].pend = <<>>
      ]_vars

C17_Witness ==
    /\ io["hb"].wr = 11
    /\ fg.q # <<>>
    /\ Head(fg.q).op = "lock_dev"
    /\ fg.pc = "nav"
    /\ Len(link) = 33
    /\ link[1].by = "fg"
    /\ link[12].by = "fg"
    /\ link[23].by = "hb"

(***************************************************************************)
(* mouse_abs: the scaling.                                                 *)
(***************************************************************************)
\* v * 32767 / dim in exact arithmetic: its floor, and its nearest integer.
ExactFloor(v, dim) == (v * 32767) \div dim
ExactRound(v, dim) ==
    ExactFloor(v, dim) + (IF 2 * ((v * 32767) % dim) >= dim THEN 1 ELSE 0)

\* C18 as claimed: tx = clamp(round(x / screen_w * 32767), 10, 32757), ty
\* likewise from y and screen_h, the scaled value rounded to the nearest
\* integer before the clamp; payload bytes 2-3 and 4-5 hold tx and ty.
C18_RoundsThenClamps ==
    (ab.pc = "done" /\ ab.screen_w > 0 /\ ab.screen_h > 0) =>
        /\ FrameTx(ab.out[1]) = Clamp(ExactRound(ab.x, ab.screen_w), 10, 32757)
        /\ FrameTy(ab.out[1]) = Clamp(ExactRound(ab.y, ab.screen_h), 10, 32757)

\* t is the clamp of v / dim * 32767 evaluated in f32 and cut to its integer
\* part: the exact floor, or one more where the exact value lies within an
\* eighth below the next integer and f32 rounding carries it there.
TruncatedClamp(t, v, dim) ==
    IF dim = 0 THEN t = (IF v = 0 THEN 10 ELSE 32757)
    ELSE \/ t = Clamp(ExactFloor(v, dim), 10, 32757)
         \/ /\ t = Clamp(ExactFloor(v, dim) + 1, 10, 32757)
            /\ 8 * ((v * 32767) % dim) >= 7 * dim

\* C18, amended: tx = clamp(trunc(x / screen_w * 32767), 10, 32757) and ty
\* likewise, the f32 value being truncated toward zero, not rounded, before
\* the clamp; payload bytes 2-3 and 4-5 decode to exactly tx and ty.
C18_TruncatesThenClamps ==
    ab.pc = "done" =>
        /\ Len(ab.out) = 1
        /\ ab.out[1][3] = 0 /\ ab.out[1][4] = 0
        /\ TruncatedClamp(ab.out[1][5] + 256 * ab.out[1][6], ab.x, ab.screen_w)
        /\ TruncatedClamp(ab.out[1][7] + 256 * ab.out[1][8], ab.y, ab.screen_h)

\* 1 / 2 * 32767 = 16383.5 is sent as 16383.
C18_Witness ==
    /\ ab.pc = "done"
    /\ ab.screen_w = 2 /\ ab.x = 1
    /\ ab.screen_h = 1080 /\ ab.y = 540
    /\ FrameTx(ab.out[1]) = 16383
    /\ FrameTy(ab.out[1]) = 16383

(***************************************************************************)
(* The motion frames of one mouse_move call, and what each should carry.   *)
(***************************************************************************)
Sgn(a) == IF a < 0 THEN -1 ELSE IF a > 0 THEN 1 ELSE 0
CeilDiv(a, b) == (a + b - 1) \div b

\* The frames of mv.out that the loop wrote: all but a leading wheel frame.
WheelFrames == IF mv.wheel # 0 /\ mv.pc \in {"loop", "done"} THEN 1 ELSE 0
MotionCount == Len(mv.out) - WheelFrames
MotionAt(j) == mv.out[WheelFrames + j]

\* The j-th step along an axis whose whole displacement is d: 127 units
\* towards d while that much is left, then the rest, then nothing.
ExpectStep(d, j) == Sgn(d) * Min(127, Max(0, Abs(d) - 127 * (j - 1)))

\* What is left of d after k steps.
ExpectLeft(d, k) == Sgn(d) * Max(0, Abs(d) - 127 * k)

\* Two's complement of a 16-bit value, low byte first, written out.
TwosLo(v) == IF v >= 0 THEN v % 256 ELSE (65536 + v) % 256
TwosHi(v) == IF v >= 0 THEN v \div 256 ELSE (65536 + v) \div 256

\* `byte as i8`, what the device reads the wheel byte as.
I8Decode(b) == IF b >= 128 THEN b - 256 ELSE b

\* C21: a motion frame's payload is [0, 0, dx_lo, dx_hi, dy_lo, dy_hi] with
\* the step of each axis in two's complement, low byte first, so that it
\* decodes to the same signed value; the wheel amount travels in payload
\* byte 1 of exactly one frame of the call when wheel # 0 and of no frame
\* when wheel = 0, and no motion frame repeats it.
C21_MotionPayloadAndWheelOnce ==
    mv.pc \in {"loop", "done"} =>
       /\ \A j \in 1..MotionCount :
             LET f == MotionAt(j)
                 sx == ExpectStep(mv.dx, j)
                 sy == ExpectStep(mv.dy, j)
             IN  /\ f[2] = MouseRel
                 /\ Payload(f) = <<0, 0, TwosLo(sx), TwosHi(sx), TwosLo(sy), TwosHi(sy)>>
                 /\ FrameDx(f) = sx
                 /\ FrameDy(f) = sy
       /\ LET carrying == {i \in 1..Len(mv.out) : Payload(mv.out[i])[2] # 0}
          IN  /\ Cardinality(carrying) = (IF mv.wheel # 0 THEN 1 ELSE 0)
              /\ \A i \in carrying :
                    /\ i = 1
                    /\ Payload(mv.out[i]) = <<0, mv.wheel % 256, 0, 0, 0, 0>>
                    /\ I8Decode(Payload(mv.out[i])[2]) = mv.wheel

\* A returned call with a negative wheel and three fragments, negative on x.
C21_Witness ==
    /\ mv.pc = "done"
    /\ mv.wheel = -128
    /\ mv.dx = -255
    /\ mv.dy = 3
    /\ Len(mv.out) = 4
    /\ Payload(mv.out[1]) = <<0, 128, 0, 0, 0, 0>>
    /\ Payload(mv.out[4]) = <<0, 0, 255, 255, 0, 0>>

\* C27: mouse_move returns after exactly max(ceil(|dx|/127), ceil(|dy|/127))
\* loop iterations, one motion frame each: after k frames each axis has
\* |d| - 127k left (0 once that is negative), of the sign it started with,
\* the loop goes on exactly while k is below that maximum, and frame j moves
\* an axis iff j is at most that axis's own count.
C27_MoveTerminatesInMaxFrames ==
    LET nx == CeilDiv(Abs(mv.dx), 127)
        ny == CeilDiv(Abs(mv.dy), 127)
        k == MotionCount
    IN  mv.pc \in {"loop", "done"} =>
           /\ k <= Max(nx, ny)
           /\ mv.cur_dx = ExpectLeft(mv.dx, k)
           /\ mv.cur_dy = ExpectLeft(mv.dy, k)
           /\ Abs(mv.cur_dx) <= Abs(mv.dx) /\ Sgn(mv.cur_dx) \in {0, Sgn(mv.dx)}
           /\ Abs(mv.cur_dy) <= Abs(mv.dy) /\ Sgn(mv.cur_dy) \in {0, Sgn(mv.dy)}
           /\ MoveCond(mv) <=> k < Max(nx, ny)
           /\ mv.pc = "done" => k = Max(nx, ny)
           /\ \A j \in 1..k :
                 /\ (FrameDx(MotionAt(j)) # 0) <=> j <= nx
                 /\ (FrameDy(MotionAt(j)) # 0) <=> j <= ny
                 /\ j < nx => Abs(FrameDx(MotionAt(j))) = 127
                 /\ j < ny => Abs(FrameDy(MotionAt(j))) = 127

\* A returned call whose y axis ran out after the first of three frames.
C27_Witness ==
    /\ mv.pc = "done"
    /\ mv.dx = 260
    /\ mv.dy = -100
    /\ MotionCount = 3
    /\ FrameDy(MotionAt(1)) = -100
    /\ FrameDy(MotionAt(2)) = 0
    /\ FrameDx(MotionAt(3)) = 6

\* C22: heartbeat writes one system frame with payload [0xFF, 0, 0, 0, 0, 0],
\* switch_identity(index) one system frame with payload
\* [0x10, index, 0, 0, 0, 0], and no frame of any other call has the system
\* type.
C22_SystemFrames ==
    /\ (dc.pc = "done" /\ dc.f = "heartbeat") =>
          /\ Len(dc.tried) = 1
          /\ dc.tried[1].frame[2] = 4
          /\ Payload(dc.tried[1].frame) = <<255, 0, 0, 0, 0, 0>>
    /\ (dc.pc = "done" /\ dc.f = "switch_identity") =>
          /\ Len(dc.tried) = 1
          /\ dc.tried[1].frame[2] = 4
          /\ Payload(dc.tried[1].frame) = <<16, dc.a[1], 0, 0, 0, 0>>
    /\ dc.f \notin {"heartbeat", "switch_identity"} =>
          /\ \A i \in 1..Len(dc.tried) : dc.tried[i].frame[2] # 4
          /\ \A i \in 1..Len(dc.pend) : dc.pend[i][2] # 4

\* switch_identity(1) has returned, its frame written.
C22_Witness ==
    /\ dc.pc = "done"
    /\ dc.f = "switch_identity"
    /\ dc.a = <<1>>
    /\ dc.tried[1].wrote = "ok"
    /\ Payload(dc.tried[1].frame) = <<16, 1, 0, 0, 0, 0>>

\* C24: a heartbeat or switch_identity call on the SoftwareDriver injects no
\* event and changes neither the recorded last key nor the screen size.
C24_SoftSystemCallsAreNoOps ==
    [][(/\ Len(sd'.calls) = Len(sd.calls) + 1
        /\ Last(sd'.calls).f \in {"heartbeat", "switch_identity"})
       => /\ sd'.log = sd.log
          /\ sd'.last_key = sd.last_key
          /\ sd'.screen_w = sd.screen_w
          /\ sd'.screen_h = sd.screen_h]_vars

\* A heartbeat and a switch_identity after key_down('a'): 'a' is still the
\* recorded key and its press is the only event.
C24_Witness ==
    /\ Len(sd.calls) = 3
    /\ sd.calls[1].f = "key_down"
    /\ sd.calls[2].f = "heartbeat"
    /\ sd.calls[3].f = "switch_identity"
    /\ sd.last_key = Unicode(97)
    /\ Len(sd.log) = 1
    /\ sd.screen_w = 1920

\* The presses of key_down's own key (line 245) that no later event releases.
StillHeld ==
    {i \in 1..Len(sd.log) :
        /\ sd.log[i].dir = "Press"
        /\ sd.log[i].line = 245
        /\ ~ \E j \in (i + 1)..Len(sd.log) :
                /\ sd.log[j].dir = "Release"
                /\ sd.log[j].key = sd.log[i].key}

\* C30: after any sequence of key_down and key_up calls that ends with
\* key_up, no key pressed through the driver is still held down.
C30_NoKeyHeldAfterKeyUp ==
    (sd.calls # <<>> /\ Last(sd.calls).f = "key_up") => StillHeld = {}

\* C28: the heartbeat thread holds the device mutex only while its one
\* heartbeat call runs (one frame and its settle sleep, nothing longer), and
\* not while it is in its 1 s sleep or on its way back to lock().
C28_HeartbeatLockPerBeat ==
    /\ lk.dev = "hb" =>
          /\ hb.pc = "beat"
          /\ io["hb"].sent + Len(io["hb"].pend) = 1
          /\ io["hb"].pend # <<>> => io["hb"].pend = <<HeartbeatFrame>>
          /\ slept["hb"] <= SettleMs
    /\ hb.pc \in {"sleep", "lock"} => lk.dev # "hb"
    /\ hb.pc = "beat" => lk.dev = "hb"

\* The heartbeat thread is in its 1 s sleep, its frame sent, and the
\* foreground holds the device mutex and is writing a frame.
C28_Witness ==
    /\ hb.pc = "sleep"
    /\ io["hb"].sent = 1
    /\ lk.dev = "fg"
    /\ io["fg"].wr = 3

\* C29: no deadlock: some thread can always take a step; the foreground
\* takes the HumanDriver mutex only when it holds neither mutex and the
\* device mutex only when it holds the HumanDriver mutex and not the device
\* mutex; the heartbeat thread takes the device mutex only when it does not
\* hold it and never touches the HumanDriver mutex; and whoever holds the
\* device mutex can run without waiting for anything.
C29_NoDeadlock ==
    /\ ENABLED Next
    /\ (fg.q # <<>> /\ Head(fg.q).op = "lock_human") =>
          /\ lk.human = "free"
          /\ lk.dev # "fg"
    /\ (fg.q # <<>> /\ Head(fg.q).op = "lock_dev") =>
          /\ lk.human = "fg"
          /\ lk.dev # "fg"
    /\ lk.dev = "fg" => lk.human = "fg"
    /\ hb.pc = "lock" => lk.dev # "hb"
    /\ lk.human # "hb"
    /\ lk.dev = "hb" => ENABLED HbRun
    /\ lk.dev = "fg" => ENABLED FgNext

\* The daily module's claim flow, between its two Space clicks, waits for the
\* device mutex with the HumanDriver mutex held while the heartbeat has it.
C29_Witness ==
    /\ fg.pc = "module"
    /\ Last(fg.ran).app = "daily"
    /\ Len(fg.q) = 4
    /\ Head(fg.q).op = "lock_dev"
    /\ lk.human = "fg"
    /\ lk.dev = "hb"

\* C23: an AND scene is active iff it has anchors and every one evaluates
\* true, so that an anchor turning false deactivates it; an OR scene is
\* active iff at least one of its anchors evaluates true; a scene without
\* anchors is never active.
C23_SceneActivation ==
    sc.pc = "seen" =>
       LET A == {sc.scene.anchors[i] : i \in 1..Len(sc.scene.anchors)}
       IN  /\ sc.scene.logic = "and" => (sc.active <=> (A # {} /\ A \subseteq sc.frame))
           /\ sc.scene.logic = "or" => (sc.active <=> (A \cap sc.frame # {}))
           /\ A = {} => ~sc.active
           /\ (sc.scene.logic = "and" /\ sc.flipped # 0 /\ sc.flipped \notin sc.frame)
                 => ~sc.active

\* An AND scene of two anchors was active; the second anchor turned false.
C23_Witness ==
    /\ sc.pc = "seen"
    /\ sc.scene.logic = "and"
    /\ Len(sc.scene.anchors) = 2
    /\ sc.was
    /\ sc.flipped = 2
    /\ sc.frame = {1}
    /\ ~sc.active

\* The inputs of a returned process_slot call, by kind.
SlotOps(op) == SelectSeq(ps.inputs, LAMBDA e : e.op = op)
SlotCentre ==
    LET r == slots[ps.slot].status_rect
    IN  <<(r[1] + r[3]) \div 2, (r[2] + r[4]) \div 2>>
ClickedAt(pos) ==
    \E k \in 1..(Len(ps.inputs) - 1) :
       /\ ps.inputs[k].op = "move_to_humanly"
       /\ <<ps.inputs[k].x, ps.inputs[k].y>> = pos
       /\ ps.inputs[k + 1].op = "click_humanly"
       /\ ps.inputs[k + 1].left
       /\ ~ps.inputs[k + 1].right

\* The markers in the text as read, its whitespace gone.
Stripped == SelectSeq(ps.text, LAMBDA c : c \notin {SPACE, 10, 12288})
HasTerminal == Contains(Stripped, FINISHED) \/ Contains(Stripped, CLAIMED)
HasClaim == Contains(Stripped, CLAIMABLE)
HasRefresh == Contains(Stripped, GO_FINISH) \/ Contains(Stripped, UNFINISHED)

\* C26: a text with a terminal marker gets no input and the result false,
\* though the second marker contains the claim marker; the claim click
\* (centre of the status rectangle, then Space twice) happens exactly when
\* the text has the claim marker and no terminal marker; the refresh click
\* at the slot's refresh position happens exactly when the text has a
\* refresh marker and not the claim marker (nor a terminal one); an empty
\* or unrecognized text gets no input and the result false.
C26_TerminalFirst ==
    ps.pc = "done" =>
       /\ HasTerminal => (ps.inputs = <<>> /\ ~ps.ret)
       /\ (HasClaim /\ ~HasTerminal) <=>
             /\ ClickedAt(SlotCentre)
             /\ Len(SlotOps("click_humanly")) = 1
             /\ Len(SlotOps("key_click")) = 2
             /\ \A k \in 1..Len(SlotOps("key_click")) : SlotOps("key_click")[k].char = 32
       /\ (HasRefresh /\ ~HasClaim /\ ~HasTerminal) <=>
             /\ ClickedAt(slots[ps.slot].refresh_pos)
             /\ Len(SlotOps("click_humanly")) = 1
             /\ SlotOps("key_click") = <<>>
       /\ (~HasTerminal /\ ~HasClaim /\ ~HasRefresh) => (ps.inputs = <<>> /\ ~ps.ret)
       /\ ps.ret <=> ps.inputs # <<>>
       /\ SlotOps("click_humanly") = <<>> => ps.inputs = <<>>

\* Slot 2 read the second terminal marker with a line break and a wide space
\* in it: no input, false.
C26_Witness ==
    /\ ps.pc = "done"
    /\ ps.slot = 2
    /\ ps.text = <<CH_YI, 10, CH_LING, 12288, CH_QU>>
    /\ ps.inputs = <<>>
    /\ ~ps.ret

\* The rounds of run() so far keep to the cap and to the slot order.
C25_RoundsWithinCap ==
    /\ dr.round <= 10
    /\ Len(dr.order) <= 4
    /\ \A k \in 1..Len(dr.order) : dr.order[k] = k
    /\ dr.pc = "check" => dr.order = <<1, 2, 3, 4>>
    /\ Len(dr.acted) <= dr.round
    /\ \A r \in 1..Len(dr.acted) :
          ~dr.acted[r] => (r = Len(dr.acted) /\ dr.pc = "done")
    /\ dr.pc = "done" =>
          /\ Len(dr.acted) = dr.round
          /\ dr.round >= 1
          /\ dr.round = 10 \/ ~dr.acted[dr.round]
    /\ \A k \in 1..Len(dr.clicks) : dr.clicks[k] <= dr.round

\* C25: run() returns, after at most 10 rounds; every round scans slots
\* 1, 2, 3, 4 in that order, once each; the first round in which no slot was
\* acted on is the last; and no slot is clicked more than 10 times.
C25_DailyRunTerminates == []C25_RoundsWithinCap /\ <>(dr.pc = "done")

\* run() has returned after ten rounds that each clicked for slot 1.
C25_Witness ==
    /\ dr.pc = "done"
    /\ dr.round = 10
    /\ dr.clicks[1] = 10
    /\ dr.clicks[4] = 0
    /\ dr.acted[10]

\* C31: build_toml, import_toml of the generated text and build_toml again
\* yield the same catalog text, for every scene whose drafts have integer
\* coordinates.
C31_RoundTripSameText ==
    \A k \in 1..(Len(tl.ops) - 2) :
       (/\ tl.ops[k].op = "build_toml"
        /\ tl.ops[k + 1].op = "import_toml"
        /\ tl.ops[k + 2].op = "build_toml")
          => tl.ops[k + 2].toml = tl.ops[k].toml

====
